---- MODULE Spec2Model ----
(***************************************************************************)
(* Model of hpx/parallel/task_region.hpp: the task_region_handle (run,     *)
(* wait, when, the destructor) and the entry points task_region(f) and     *)
(* task_region(policy, f).                                                 *)
(*                                                                         *)
(* Thread 0 executes the entry point and the body f.  Thread t > 0 is the  *)
(* task that hpx::async created for the t-th call of run.  A task is user  *)
(* code: it ends normally, with a plain error, or with an exception_list.  *)
(* The body f spawns tasks, calls wait, returns or raises; it has no       *)
(* handler of its own, so what wait() raises inside f escapes f.           *)
(*                                                                         *)
(* Spec is the handle used as documented: only f calls run and wait.       *)
(* SpecCaptured is task_region(f) with tasks that captured the handle by   *)
(* reference and call run on it themselves (the use the class              *)
(* documentation calls "tr is not active").                                *)
(* SpecFinal is Spec entered through task_region_final.                    *)
(* SpecFair, SpecEntryFair and SpecCapturedFair add to Spec and            *)
(* SpecCaptured the progress one kind of thread is guaranteed: the tasks,  *)
(* the thread of the entry point, the threads inside run and when.         *)
(* SpecCapturedAllFair gives all of these to SpecCaptured.                 *)
(*                                                                         *)
(* SpecNested is two task_region(f) calls, each with a handle of its own:  *)
(* the inner one is executed by a task of the outer one.                   *)
(*                                                                         *)
(* SpecSender is hpx/basic_execution/sender.hpp: the traits is_sender,     *)
(* sender_traits, is_sender_to and the customization point connect,        *)
(* applied to any sender and receiver type of a bounded family.            *)
(* SpecQualified instantiates the traits for the cv- and reference-        *)
(* qualified ways of writing one sender type.                              *)
(*                                                                         *)
(* SpecMpi is hpx::util::mpi_environment: init, finalize, and the lock     *)
(* guards scoped_lock and scoped_try_lock, over an MPI library that the    *)
(* application may initialize and finalize itself.                         *)
(*                                                                         *)
(* SpecInit is hpx_init_impl.hpp: the hpx::init overloads that take an     *)
(* entry function, down to the call of detail::run_or_start.               *)
(***************************************************************************)
EXTENDS Integers, Sequences, FiniteSets

\* Number of futures hpx::async hands out in one run of the model.
MaxTasks == 3
\* Number of explicit wait() calls the body f makes.
MaxWaits == 1
\* Number of futures hpx::async hands out in a run with two nested regions.
MaxNested == 3

Tasks == 1..MaxTasks
Threads == 0..MaxTasks
\* Nested regions: the tasks, the threads (0 executes the outer region) and
\* the two handles.
NTasks == 1..MaxNested
NThreads == 0..MaxNested
Handles == {"outer", "inner"}

VARIABLES
    mode,    \* "sync": task_region(f); "async": task_region(policy, f)
    pc,      \* position of every thread
    ctx,     \* the call of when() thread 0 is in: "body", "final", "ret", "dtor"
    mtx,     \* mtx_: the thread that holds the spinlock, -1 when free
    tasks_,  \* tasks_: the pending futures, as task ids
    alive,   \* the task_region_handle trh has not been destroyed
    held,    \* run's local `result`: the future a thread holds before push_back
    snap,    \* the content of tasks_ a thread's push_back works on
    parent,  \* the thread whose run call created the task
    texc,    \* the exception a task's future carries: <<>> or <<e>>
    nextId,  \* the next future hpx::async creates
    waits,   \* explicit wait() calls made by f so far
    errors,  \* the entry point's local exception_list `errors`
    futs,    \* the futures when() returned: "w" (wait, destructor), "r" (returned)
    fexc,    \* the exception that escaped f(trh): <<>> or <<e>>
    wexc,    \* the exception the last wait() raised: <<>> or <<e>>
    result,  \* how the entry point ended: "none", "returned", "raised", "future"
    thrown,  \* the exception the entry point raised: <<>> or <<e>>
    \* Two nested regions, each with a task_region_handle of its own.
    npc,     \* position of every thread
    nreg,    \* the task that executes the inner region, 0 before it exists
    nctx,    \* per handle, the call of when() its thread is in: "final", "dtor"
    nmtx,    \* per handle, mtx_: the thread that holds it, -1 when free
    nlist,   \* per handle, tasks_
    nsnap,   \* the content of tasks_ a thread's push_back works on
    nheld,   \* run's local `result` of a thread
    nowner,  \* the handle whose run created the task, "none" before
    nfut,    \* per handle, the future its thread got from when()
    nnext,   \* the next future hpx::async creates
    \* The sender/receiver traits and connect.
    Sender,  \* the sender type of the translation unit
    Receiver,\* the receiver type of the translation unit
    probe,   \* the last instantiation or call, and what it gave
    \* hpx::util::mpi_environment and the MPI library under it.
    enabled_,                 \* static bool enabled_
    has_called_init_,         \* static bool has_called_init_
    provided_threading_flag_, \* static int provided_threading_flag_
    mpi,         \* the MPI library: "uninit", "init", "finalized"
    mpi_by,      \* who initialized MPI: "none", "component", "other"
    mpi_level,   \* the thread level MPI was initialized with
    init_minimal,\* the argument `minimal` of the last call of init
    finalizes,   \* MPI_Finalize calls made by finalize() so far
    mmtx,        \* static mutex_type mtx_: held by "guard", "other", or "free"
    guard,       \* the scoped_lock or scoped_try_lock object under observation
    \* hpx::init.
    call,        \* the call of hpx::init the program makes
    launch       \* what detail::run_or_start was called with

\* One handle and its entry point.
hvars == <<mode, pc, ctx, mtx, tasks_, alive, held, snap, parent, texc, nextId,
           waits, errors, futs, fexc, wexc, result, thrown>>
\* Two nested regions.
nvars == <<npc, nreg, nctx, nmtx, nlist, nsnap, nheld, nowner, nfut, nnext>>

\* The sender/receiver traits and connect.
svars == <<Sender, Receiver, probe>>

\* mpi_environment.
mvars == <<enabled_, has_called_init_, provided_threading_flag_, mpi, mpi_by,
           mpi_level, init_minimal, finalizes, mmtx, guard>>
\* hpx::init.
ivars == <<call, launch>>

vars == <<hvars, nvars, svars, mvars, ivars>>

----------------------------------------------------------------------------
\* Exceptions.  An exception_ptr refers either to a plain error or to an
\* exception_list with its causes.

Plain(i) == [list |-> FALSE, id |-> i, causes |-> <<>>]
ExceptionList(s) == [list |-> TRUE, id |-> 0, causes |-> s]

\* exception_list::add without the flattening: the pointer is stored as it is.
AddOpaque(errs, e) == Append(errs, e)

\* exception_list::add(e): the aggregator's append.  An aggregator that is
\* added contributes its causes one by one, anything else is one cause.
Add(errs, e) == IF e.list THEN errs \o e.causes ELSE Append(errs, e)

RECURSIVE AddEach(_, _)
\* for (boost::exception_ptr e: el) errors.add(e);
AddEach(errs, s) ==
    IF s = <<>> THEN errs ELSE AddEach(Add(errs, Head(s)), Tail(s))

\* A handler that swallows the exception in flight.
handle_and_drop(errs, e) == errs

\* A handler with the catch (...) block only: whatever is in flight is
\* added as one cause.
handle_as_one(errs, e) == Append(errs, e)

\* detail::handle_task_region_exceptions(errors), e being the current
\* exception: an exception_list is added cause by cause, anything else whole.
handle_task_region_exceptions(errs, e) ==
    IF e.list THEN AddEach(errs, e.causes) ELSE Add(errs, e)

\* The code that runs in a catch (...) block of the entry point: nothing to
\* do when no exception is in flight.
Caught(errs, exc) ==
    IF exc = <<>> THEN errs ELSE handle_task_region_exceptions(errs, exc[1])

----------------------------------------------------------------------------
\* Futures.

ReadyFuture == [state |-> "ready", results |-> <<>>, errs |-> <<>>, exc |-> <<>>]
NoFuture == [state |-> "none", results |-> <<>>, errs |-> <<>>, exc |-> <<>>]

\* A when() without the test for an empty list: a dataflow is created for
\* whatever was swapped out.
whenDataflowOnly(active, errs) ==
    [state |-> "pending", results |-> active, errs |-> errs, exc |-> <<>>]

\* A when() whose dataflow takes only the first of the swapped-out futures.
whenHead(active, errs) ==
    IF active = <<>>
    THEN ReadyFuture
    ELSE [state |-> "pending", results |-> <<Head(active)>>, errs |-> errs,
          exc |-> <<>>]

\* when(errors), after the swap: a ready future for an empty list, else the
\* dataflow over the swapped-out futures with `errors` captured by the lambda.
when(active, errs) ==
    IF active = <<>>
    THEN ReadyFuture
    ELSE [state |-> "pending", results |-> active, errs |-> errs, exc |-> <<>>]

\* A dataflow that runs as soon as one of the futures is ready.
AnyReady(results) ==
    \E i \in 1..Len(results) : pc[results[i]] = "done"

\* A dataflow that stops waiting at the first future that failed.
ReadyOrFailed(results) ==
    \/ \A i \in 1..Len(results) : pc[results[i]] = "done"
    \/ \E i \in 1..Len(results) :
          pc[results[i]] = "done" /\ texc[results[i]] # <<>>

\* The dataflow runs its function once every future of `results` is ready.
AllReady(results) ==
    \A i \in 1..Len(results) : pc[results[i]] = "done"

\* The lambda's loop leaving at the first exception it finds.
RECURSIVE CollectFirst(_, _)
CollectFirst(errs, results) ==
    IF results = <<>> THEN errs
    ELSE IF pc[Head(results)] = "done" /\ texc[Head(results)] # <<>>
         THEN Add(errs, texc[Head(results)][1])
         ELSE CollectFirst(errs, Tail(results))

RECURSIVE CollectAll(_, _)
\* The loop of the dataflow's lambda: add the exception of every future
\* that has one, in the order of the list.
CollectAll(errs, results) ==
    IF results = <<>> THEN errs
    ELSE CollectAll(IF pc[Head(results)] = "done" /\ texc[Head(results)] # <<>>
                    THEN Add(errs, texc[Head(results)][1])
                    ELSE errs,
                    Tail(results))

RECURSIVE CollectBackwards(_, _)
\* A lambda that walks its list from the last future to the first.
CollectBackwards(errs, results) ==
    IF results = <<>> THEN errs
    ELSE CollectBackwards(
             IF pc[results[Len(results)]] = "done" /\ texc[results[Len(results)]] # <<>>
             THEN Add(errs, texc[results[Len(results)]][1])
             ELSE errs,
             SubSeq(results, 1, Len(results) - 1))

\* A lambda that walks the handle's list as well as its own copy.
CollectLive(errs, results) == CollectAll(errs, results \o tasks_)

\* for (hpx::future<void>& f: results) if (f.has_exception()) errors.add(...)
Collect(errs, results) == CollectAll(errs, results)

\* A lambda that throws its exception_list without looking at the count.
ThrowAlways(errs) == <<ExceptionList(errs)>>

\* if (errors.get_error_count()) boost::throw_exception(errors);
ThrowIfAny(errs) == IF Len(errs) > 0 THEN <<ExceptionList(errs)>> ELSE <<>>

\* wait(): an exception_list passes through, anything else is wrapped.
WaitCatch(exc) ==
    IF exc = <<>> \/ exc[1].list THEN exc ELSE <<ExceptionList(<<exc[1]>>)>>

\* A get() that does not block.
getNow(f) == f.state # "none"

\* future::get() returns once the future is ready.
get(f) == f.state = "ready"

\* A wait_all that does not block.
wait_all_now(f) == f.state # "none"

\* hpx::wait_all(f) returns once the future is ready.
wait_all(f) == f.state = "ready"

----------------------------------------------------------------------------
\* What user code can do.

\* The outcomes of a task's function.
TaskOutcomes(t) ==
    {<<>>, <<Plain(t)>>, <<ExceptionList(<<Plain(t), Plain(0 - t)>>)>>}

\* The errors the body f can raise by itself.
BodyErrors ==
    {<<Plain(0)>>, <<ExceptionList(<<Plain(0), Plain(0 - MaxTasks - 1)>>)>>}

\* The pc at which a thread executes user code.
Exec(th) == IF th = 0 THEN "body" ELSE "exec"

\* The call that follows f(trh): trh.wait() or trh.when(std::move(errors)).
AfterBody == IF mode = "sync" THEN "final" ELSE "ret"

----------------------------------------------------------------------------
HandleInit ==
    /\ mode \in {"sync", "async"}
    /\ pc = [th \in Threads |-> IF th = 0 THEN "body" ELSE "unborn"]
    /\ ctx = "body"
    /\ mtx = -1
    /\ tasks_ = <<>>
    /\ alive = TRUE
    /\ held = [th \in Threads |-> 0]
    /\ snap = [th \in Threads |-> <<>>]
    /\ parent = [t \in Tasks |-> 0]
    /\ texc = [t \in Tasks |-> <<>>]
    /\ nextId = 1
    /\ waits = 0
    /\ errors = <<>>
    /\ futs = [k \in {"w", "r"} |-> NoFuture]
    /\ fexc = <<>>
    /\ wexc = <<>>
    /\ result = "none"
    /\ thrown = <<>>

\* Two nested regions: task_region(f) has been entered on thread 0, no task
\* exists and both lists are empty.
NestedInit ==
    /\ npc = [th \in NThreads |-> IF th = 0 THEN "body" ELSE "unborn"]
    /\ nreg = 0
    /\ nctx = [h \in Handles |-> "final"]
    /\ nmtx = [h \in Handles |-> -1]
    /\ nlist = [h \in Handles |-> <<>>]
    /\ nsnap = [th \in NThreads |-> <<>>]
    /\ nheld = [th \in NThreads |-> 0]
    /\ nowner = [t \in NTasks |-> "none"]
    /\ nfut = [h \in Handles |-> NoFuture]
    /\ nnext = 1

\* Nothing has been instantiated.
NoProbe == [kind |-> "none", sf |-> "rv", rf |-> "rv", value |-> "none"]

\* The thread levels of MPI, in the order the MPI standard gives them.
MPI_THREAD == [SINGLE |-> 0, FUNNELED |-> 1, SERIALIZED |-> 2, MULTIPLE |-> 3]

ThreadLevels == {MPI_THREAD.SINGLE, MPI_THREAD.FUNNELED,
                 MPI_THREAD.SERIALIZED, MPI_THREAD.MULTIPLE}

\* No lock guard has been constructed.
NoGuard == [kind |-> "none", phase |-> "none", locked |-> FALSE,
            locks |-> 0, unlocks |-> 0]

\* The static members of mpi_environment as they are defined, MPI being in
\* state m, and nothing holding mtx_.
MpiStatics(m) ==
    /\ enabled_ = FALSE
    /\ has_called_init_ = FALSE
    /\ provided_threading_flag_ = MPI_THREAD.SINGLE
    /\ mpi = m
    /\ mpi_by = "none"
    /\ mpi_level = MPI_THREAD.SINGLE
    /\ init_minimal = MPI_THREAD.SINGLE
    /\ finalizes = 0
    /\ mmtx = "free"
    /\ guard = NoGuard

\* A program that does not touch mpi_environment.
MpiIdle == MpiStatics("uninit")

\* No call of hpx::init has been made.
NoCall == [overload |-> "none", f |-> "none", args |-> "none", mode |-> "none"]
NoLaunch == [kind |-> "none", f |-> [fn |-> "none", user |-> "none"],
             args |-> "none", mode |-> "none"]

InitIdle ==
    /\ call = NoCall
    /\ launch = NoLaunch

\* The types of a translation unit in which none of this is used.
SenderIdle ==
    /\ Sender = [move_constructible |-> FALSE, value_types |-> FALSE,
                 error_types |-> FALSE, sends_done |-> FALSE,
                 specialization |-> "none", tag_invoke |-> "none",
                 connect |-> "none", tag_invoke_state |-> FALSE,
                 connect_state |-> FALSE]
    /\ Receiver = [receiver |-> FALSE]
    /\ probe = NoProbe

\* The start of the task_region models: no sender type is looked at.
Init == HandleInit /\ NestedInit /\ SenderIdle /\ MpiIdle /\ InitIdle

----------------------------------------------------------------------------
\* run(f), first statement: hpx::async(f) starts the task.
RunAsync(th) ==
    /\ pc[th] = Exec(th)
    /\ nextId <= MaxTasks
    /\ pc' = [pc EXCEPT ![th] = "run_async", ![nextId] = "exec"]
    /\ held' = [held EXCEPT ![th] = nextId]
    /\ parent' = [parent EXCEPT ![nextId] = th]
    /\ nextId' = nextId + 1
    /\ UNCHANGED <<nvars, svars, mvars, ivars, snap, mode, ctx, mtx, tasks_, alive, texc, waits, errors, futs,
                   fexc, wexc, result, thrown>>

\* A run that enters its critical section without waiting for mtx_.
RunLockFree(th) ==
    /\ pc[th] = "run_async"
    /\ IF alive
       THEN /\ mtx' = th
            /\ snap' = [snap EXCEPT ![th] = tasks_]
            /\ pc' = [pc EXCEPT ![th] = "run_lock"]
       ELSE /\ mtx' = mtx
            /\ snap' = snap
            /\ \E p \in {"run_lock", "fault"} : pc' = [pc EXCEPT ![th] = p]
    /\ UNCHANGED <<nvars, svars, mvars, ivars, mode, ctx, tasks_, alive, held, parent, texc, nextId,
                   waits, errors, futs, fexc, wexc, result, thrown>>

\* run(f): mutex_type::scoped_lock l(mtx_); from here on push_back works on
\* the list as the thread finds it.  On a destroyed handle the lock is taken
\* on dead storage: the call goes on or the thread faults.
RunLock(th) ==
    /\ pc[th] = "run_async"
    /\ IF alive
       THEN /\ mtx = -1
            /\ mtx' = th
            /\ snap' = [snap EXCEPT ![th] = tasks_]
            /\ pc' = [pc EXCEPT ![th] = "run_lock"]
       ELSE /\ mtx' = mtx
            /\ snap' = snap
            /\ \E p \in {"run_lock", "fault"} : pc' = [pc EXCEPT ![th] = p]
    /\ UNCHANGED <<nvars, svars, mvars, ivars, mode, ctx, tasks_, alive, held, parent, texc, nextId,
                   waits, errors, futs, fexc, wexc, result, thrown>>

\* A run whose lock scope does not end: mtx_ stays with the caller.
RunPushKeepsLock(th) ==
    /\ pc[th] = "run_lock"
    /\ held' = [held EXCEPT ![th] = 0]
    /\ mtx' = mtx
    /\ IF alive
       THEN /\ tasks_' = Append(snap[th], held[th])
            /\ snap' = [snap EXCEPT ![th] = <<>>]
            /\ pc' = [pc EXCEPT ![th] = Exec(th)]
       ELSE /\ tasks_' = tasks_
            /\ snap' = snap
            /\ \E p \in {Exec(th), "fault"} : pc' = [pc EXCEPT ![th] = p]
    /\ UNCHANGED <<nvars, svars, mvars, ivars, mode, ctx, alive, parent, texc, nextId, waits, errors,
                   futs, fexc, wexc, result, thrown>>

\* A run that asserts that its caller is the body of the region and
\* registers nothing for any other caller.
RunPushActiveOnly(th) ==
    /\ pc[th] = "run_lock"
    /\ held' = [held EXCEPT ![th] = 0]
    /\ snap' = [snap EXCEPT ![th] = <<>>]
    /\ mtx' = IF alive THEN -1 ELSE mtx
    /\ IF alive /\ th = 0
       THEN /\ tasks_' = Append(snap[th], held[th])
            /\ pc' = [pc EXCEPT ![th] = Exec(th)]
       ELSE /\ tasks_' = tasks_
            /\ pc' = [pc EXCEPT ![th] = "fault"]
    /\ UNCHANGED <<nvars, svars, mvars, ivars, mode, ctx, alive, parent, texc, nextId, waits,
                   errors, futs, fexc, wexc, result, thrown>>

\* run(f): tasks_.push_back(std::move(result)) and the end of the lock scope.
\* On a destroyed handle the list is dead storage, which no one reads any
\* more: the call goes through or the thread faults, and the future is
\* dropped either way.
RunPush(th) ==
    /\ pc[th] = "run_lock"
    /\ held' = [held EXCEPT ![th] = 0]
    /\ IF alive
       THEN /\ tasks_' = Append(snap[th], held[th])
            /\ snap' = [snap EXCEPT ![th] = <<>>]
            /\ mtx' = -1
            /\ pc' = [pc EXCEPT ![th] = Exec(th)]
       ELSE /\ tasks_' = tasks_
            /\ snap' = snap
            /\ mtx' = mtx
            /\ \E p \in {Exec(th), "fault"} : pc' = [pc EXCEPT ![th] = p]
    /\ UNCHANGED <<nvars, svars, mvars, ivars, mode, ctx, alive, parent, texc, nextId, waits, errors,
                   futs, fexc, wexc, result, thrown>>

\* A task that is cancelled once a task or the body has failed: its function
\* does not go on.
TaskFinishUnlessFailed(t) ==
    /\ pc[t] = "exec"
    /\ fexc = <<>>
    /\ \A u \in Tasks : texc[u] = <<>>
    /\ \E e \in TaskOutcomes(t) : texc' = [texc EXCEPT ![t] = e]
    /\ pc' = [pc EXCEPT ![t] = "done"]
    /\ UNCHANGED <<nvars, svars, mvars, ivars, snap, mode, ctx, mtx, tasks_, alive, held, parent, nextId, waits,
                   errors, futs, fexc, wexc, result, thrown>>

\* The task's function ends; its future becomes ready with the outcome.
TaskFinish(t) ==
    /\ pc[t] = "exec"
    /\ \E e \in TaskOutcomes(t) : texc' = [texc EXCEPT ![t] = e]
    /\ pc' = [pc EXCEPT ![t] = "done"]
    /\ UNCHANGED <<nvars, svars, mvars, ivars, snap, mode, ctx, mtx, tasks_, alive, held, parent, nextId, waits,
                   errors, futs, fexc, wexc, result, thrown>>

----------------------------------------------------------------------------
\* The body calls trh.wait().
BodyWait ==
    /\ pc[0] = "body"
    /\ waits < MaxWaits
    /\ waits' = waits + 1
    /\ pc' = [pc EXCEPT ![0] = "when"]
    /\ ctx' = "body"
    /\ UNCHANGED <<nvars, svars, mvars, ivars, snap, mode, mtx, tasks_, alive, held, parent, texc, nextId,
                   errors, futs, fexc, wexc, result, thrown>>

\* f(trh) returns.
BodyReturn ==
    /\ pc[0] = "body"
    /\ pc' = [pc EXCEPT ![0] = "when"]
    /\ ctx' = AfterBody
    /\ UNCHANGED <<nvars, svars, mvars, ivars, snap, mode, mtx, tasks_, alive, held, parent, texc, nextId,
                   waits, errors, futs, fexc, wexc, result, thrown>>

\* f(trh) raises an error of its own; catch (...) adds it to `errors`.
BodyThrow ==
    /\ pc[0] = "body"
    /\ \E e \in BodyErrors :
          /\ fexc' = e
          /\ errors' = Caught(errors, e)
    /\ pc' = [pc EXCEPT ![0] = "when"]
    /\ ctx' = AfterBody
    /\ UNCHANGED <<nvars, svars, mvars, ivars, snap, mode, mtx, tasks_, alive, held, parent, texc, nextId,
                   waits, futs, wexc, result, thrown>>

----------------------------------------------------------------------------
\* when(): mutex_type::scoped_lock l(mtx_).
WhenLock ==
    /\ pc[0] = "when"
    /\ mtx = -1
    /\ mtx' = 0
    /\ pc' = [pc EXCEPT ![0] = "when_locked"]
    /\ UNCHANGED <<nvars, svars, mvars, ivars, snap, mode, ctx, tasks_, alive, held, parent, texc, nextId,
                   waits, errors, futs, fexc, wexc, result, thrown>>

\* A when() that copies the list instead of swapping it out: the futures
\* stay pending on the handle.
WhenCopy ==
    /\ pc[0] = "when_locked"
    /\ tasks_' = tasks_
    /\ mtx' = -1
    /\ IF ctx = "ret"
       THEN /\ futs' = [futs EXCEPT !["r"] = when(tasks_, errors)]
            /\ pc' = [pc EXCEPT ![0] = "when"]
            /\ ctx' = "dtor"
       ELSE /\ futs' = [futs EXCEPT !["w"] = when(tasks_, <<>>)]
            /\ pc' = [pc EXCEPT ![0] = IF ctx = "dtor" THEN "wait_all" ELSE "get"]
            /\ ctx' = ctx
    /\ UNCHANGED <<nvars, svars, mvars, ivars, snap, mode, alive, held, parent, texc, nextId, waits, errors,
                   fexc, wexc, result, thrown>>

\* A when() whose lock scope does not end with the swap: the caller goes on
\* to wait with mtx_ held.
WhenSwapLocked ==
    /\ pc[0] = "when_locked"
    /\ tasks_' = <<>>
    /\ mtx' = mtx
    /\ IF ctx = "ret"
       THEN /\ futs' = [futs EXCEPT !["r"] = when(tasks_, errors)]
            /\ pc' = [pc EXCEPT ![0] = "when"]
            /\ ctx' = "dtor"
       ELSE /\ futs' = [futs EXCEPT !["w"] = when(tasks_, <<>>)]
            /\ pc' = [pc EXCEPT ![0] = IF ctx = "dtor" THEN "wait_all" ELSE "get"]
            /\ ctx' = ctx
    /\ UNCHANGED <<nvars, svars, mvars, ivars, snap, mode, alive, held, parent, texc, nextId, waits, errors,
                   fexc, wexc, result, thrown>>

\* when(): std::swap(tasks_, active), the end of the lock scope, and the
\* future that is returned.  After `return trh.when(std::move(errors))` the
\* destructor of trh runs.
WhenSwap ==
    /\ pc[0] = "when_locked"
    /\ tasks_' = <<>>
    /\ mtx' = -1
    /\ IF ctx = "ret"
       THEN /\ futs' = [futs EXCEPT !["r"] = when(tasks_, errors)]
            /\ pc' = [pc EXCEPT ![0] = "when"]
            /\ ctx' = "dtor"
       ELSE /\ futs' = [futs EXCEPT !["w"] = when(tasks_, <<>>)]
            /\ pc' = [pc EXCEPT ![0] = IF ctx = "dtor" THEN "wait_all" ELSE "get"]
            /\ ctx' = ctx
    /\ UNCHANGED <<nvars, svars, mvars, ivars, snap, mode, alive, held, parent, texc, nextId, waits, errors,
                   fexc, wexc, result, thrown>>

\* The function passed to dataflow runs and makes the future ready.
DataflowRun(k) ==
    /\ futs[k].state = "pending"
    /\ AllReady(futs[k].results)
    /\ futs' = [futs EXCEPT ![k].state = "ready",
                            ![k].exc = ThrowIfAny(Collect(futs[k].errs,
                                                          futs[k].results))]
    /\ UNCHANGED <<nvars, svars, mvars, ivars, snap, mode, pc, ctx, mtx, tasks_, alive, held, parent, texc,
                   nextId, waits, errors, fexc, wexc, result, thrown>>

\* wait(): when().get() returns or raises, and the catch blocks.
WaitGet ==
    /\ pc[0] = "get"
    /\ get(futs["w"])
    /\ wexc' = WaitCatch(futs["w"].exc)
    /\ pc' = [pc EXCEPT ![0] = "wait_ret"]
    /\ UNCHANGED <<nvars, svars, mvars, ivars, snap, mode, ctx, mtx, tasks_, alive, held, parent, texc, nextId,
                   waits, errors, futs, fexc, result, thrown>>

\* The body's wait() is over: f goes on, or the exception_list escapes f and
\* catch (...) adds it to `errors`.
WaitReturnBody ==
    /\ pc[0] = "wait_ret"
    /\ ctx = "body"
    /\ IF wexc = <<>>
       THEN /\ pc' = [pc EXCEPT ![0] = "body"]
            /\ UNCHANGED <<ctx, fexc, errors>>
       ELSE /\ fexc' = wexc
            /\ errors' = Caught(errors, wexc)
            /\ pc' = [pc EXCEPT ![0] = "when"]
            /\ ctx' = AfterBody
    /\ wexc' = <<>>
    /\ futs' = [futs EXCEPT !["w"] = NoFuture]
    /\ UNCHANGED <<nvars, svars, mvars, ivars, snap, mode, mtx, tasks_, alive, held, parent, texc, nextId,
                   waits, result, thrown>>

\* task_region(f): trh.wait() is over, catch (...) adds what it raised, and
\* the function raises `errors` if it is not empty.  Either way the
\* destructor of trh runs next.
WaitReturnFinal ==
    /\ pc[0] = "wait_ret"
    /\ ctx = "final"
    /\ errors' = Caught(errors, wexc)
    /\ thrown' = ThrowIfAny(errors')
    /\ result' = IF thrown' = <<>> THEN "returned" ELSE "raised"
    /\ pc' = [pc EXCEPT ![0] = "when"]
    /\ ctx' = "dtor"
    /\ wexc' = <<>>
    /\ futs' = [futs EXCEPT !["w"] = NoFuture]
    /\ UNCHANGED <<nvars, svars, mvars, ivars, snap, mode, mtx, tasks_, alive, held, parent, texc, nextId,
                   waits, fexc>>

\* A destructor that calls when().get(): the exception of the future is
\* raised out of the destructor.
WaitAllRethrows ==
    /\ pc[0] = "wait_all"
    /\ wait_all(futs["w"])
    /\ alive' = FALSE
    /\ pc' = [pc EXCEPT ![0] = "done"]
    /\ result' = IF futs["w"].exc # <<>> THEN "raised"
                 ELSE IF mode = "async" THEN "future" ELSE result
    /\ thrown' = IF futs["w"].exc # <<>> THEN futs["w"].exc ELSE thrown
    /\ futs' = [futs EXCEPT !["w"] = NoFuture]
    /\ UNCHANGED <<nvars, svars, mvars, ivars, snap, mode, ctx, mtx, tasks_, held, parent, texc, nextId, waits,
                   errors, fexc, wexc>>

\* ~task_region_handle(): hpx::wait_all(when()) returns, without raising;
\* the handle is gone and the entry point is left.
WaitAll ==
    /\ pc[0] = "wait_all"
    /\ wait_all(futs["w"])
    /\ alive' = FALSE
    /\ pc' = [pc EXCEPT ![0] = "done"]
    /\ result' = IF mode = "async" THEN "future" ELSE result
    /\ futs' = [futs EXCEPT !["w"] = NoFuture]
    /\ UNCHANGED <<nvars, svars, mvars, ivars, snap, mode, ctx, mtx, tasks_, held, parent, texc, nextId, waits,
                   errors, fexc, wexc, thrown>>

----------------------------------------------------------------------------
\* The steps of the entry point and of the futures.
Region ==
    \/ BodyWait
    \/ BodyReturn
    \/ BodyThrow
    \/ WhenLock
    \/ WhenSwap
    \/ \E k \in {"w", "r"} : DataflowRun(k)
    \/ WaitGet
    \/ WaitReturnBody
    \/ WaitReturnFinal
    \/ WaitAll
    \/ \E t \in Tasks : TaskFinish(t)

\* The handle used as documented: only f, on thread 0, calls run.
Next ==
    \/ RunAsync(0)
    \/ RunLock(0)
    \/ RunPush(0)
    \/ Region

Spec == Init /\ [][Next]_vars

\* What the scheduler guarantees to a task hpx::async created: its function
\* is executed, and the function, being user code that terminates, ends.
FairTasks == \A t \in Tasks : WF_vars(TaskFinish(t))

SpecFair == Spec /\ FairTasks

\* What the scheduler guarantees to the thread that executes the entry
\* point: it goes on through when() and the destructor whenever it is not
\* waiting for a future.  Nothing is assumed about the tasks.
FairEntry == WF_vars(WhenLock) /\ WF_vars(WhenSwap) /\ WF_vars(WaitAll)

SpecEntryFair == Spec /\ FairEntry

\* Tasks that captured the handle call run on it too.
NextCaptured ==
    \/ \E th \in Threads : RunAsync(th)
    \/ \E th \in Threads : RunLock(th)
    \/ \E th \in Threads : RunPush(th)
    \/ Region

InitSync == Init /\ mode = "sync"

SpecCaptured == InitSync /\ [][NextCaptured]_vars

\* What the scheduler guarantees to a thread inside run or inside the lock
\* scope of when: it goes on executing, and it gets mtx_ once mtx_ stays
\* free.  Nothing is assumed about the functions of the tasks: they may run
\* for ever.
FairLockScopes ==
    /\ \A th \in Threads : WF_vars(RunLock(th)) /\ WF_vars(RunPush(th))
    /\ WF_vars(WhenSwap)

SpecCapturedFair == SpecCaptured /\ FairLockScopes

\* Fair scheduling of everything that has to end: f returns or raises, the
\* functions of the tasks end, the dataflow lambdas run once their futures
\* are ready, and every thread that is inside run, when, wait or the
\* destructor goes on when it is not waiting for a future or for mtx_.
\* Whether f or a task calls run or wait at all is left open.
FairAll ==
    /\ FairLockScopes
    /\ FairTasks
    /\ FairEntry
    /\ WF_vars(BodyReturn \/ BodyThrow)
    /\ \A k \in {"w", "r"} : WF_vars(DataflowRun(k))
    /\ WF_vars(WaitGet)
    /\ WF_vars(WaitReturnBody)
    /\ WF_vars(WaitReturnFinal)

SpecCapturedAllFair == SpecCaptured /\ FairAll

\* task_region_final(f) and task_region_final(policy, f) have been called and
\* have not yet called anything: no handle exists yet, which the model shows
\* as the fresh state of the handle that task_region is about to construct.
FinalInit ==
    /\ mode \in {"sync", "async"}
    /\ pc = [th \in Threads |-> IF th = 0 THEN "final_call" ELSE "unborn"]
    /\ ctx = "body"
    /\ mtx = -1
    /\ tasks_ = <<>>
    /\ alive = TRUE
    /\ held = [th \in Threads |-> 0]
    /\ snap = [th \in Threads |-> <<>>]
    /\ parent = [t \in Tasks |-> 0]
    /\ texc = [t \in Tasks |-> <<>>]
    /\ nextId = 1
    /\ waits = 0
    /\ errors = <<>>
    /\ futs = [k \in {"w", "r"} |-> NoFuture]
    /\ fexc = <<>>
    /\ wexc = <<>>
    /\ result = "none"
    /\ thrown = <<>>

\* A task_region_final that calls the overload of task_region with the other
\* signature.
FinalCallOtherOverload ==
    /\ pc[0] = "final_call"
    /\ pc' = [pc EXCEPT ![0] = "body"]
    /\ mode' = IF mode = "sync" THEN "async" ELSE "sync"
    /\ UNCHANGED <<nvars, svars, mvars, ivars, snap, ctx, mtx, tasks_, alive, held, parent, texc,
                   nextId, waits, errors, futs, fexc, wexc, result, thrown>>

\* task_region_final(f): task_region(std::forward<F>(f));
\* task_region_final(policy, f): return task_region(task, std::forward<F>(f)).
\* Neither has a handler or a statement after the call: what task_region
\* returns or raises is what task_region_final returns or raises.
FinalCall ==
    /\ pc[0] = "final_call"
    /\ pc' = [pc EXCEPT ![0] = "body"]
    /\ UNCHANGED <<nvars, svars, mvars, ivars, snap, mode, ctx, mtx, tasks_, alive, held, parent,
                   texc, nextId, waits, errors, futs, fexc, wexc, result, thrown>>

NextFinal ==
    \/ FinalCall
    \/ Next

InitFinal == FinalInit /\ NestedInit /\ SenderIdle /\ MpiIdle /\ InitIdle

SpecFinal == InitFinal /\ [][NextFinal]_vars

----------------------------------------------------------------------------
\* Two nested regions.  Thread 0 executes the outer task_region(f); one of
\* the tasks f runs on the outer handle executes an inner task_region(g)
\* with a handle of its own, concurrently with f.  Errors play no part here.

\* Members that all handles share, as static members would be.
shared_members(h) == "outer"

\* The object whose tasks_ and mtx_ a member function called on h works on.
members(h) == h

\* The handle of the region a thread executes.
HandleOf(th) == IF th = 0 THEN "outer" ELSE "inner"

\* The dataflow runs its function once every future of `results` is ready.
NestedAllReady(results) ==
    \A i \in 1..Len(results) : npc[results[i]] = "done"

\* run(f), first statement: hpx::async(f).  The function f runs on the outer
\* handle may be the one that executes the inner region.
NestedRunAsync(th) ==
    /\ npc[th] = "body"
    /\ nnext <= MaxNested
    /\ \E inner \in (IF th = 0 /\ nreg = 0 THEN BOOLEAN ELSE {FALSE}) :
          /\ npc' = [npc EXCEPT ![th] = "run_async",
                                ![nnext] = IF inner THEN "body" ELSE "exec"]
          /\ nreg' = IF inner THEN nnext ELSE nreg
    /\ nheld' = [nheld EXCEPT ![th] = nnext]
    /\ nowner' = [nowner EXCEPT ![nnext] = HandleOf(th)]
    /\ nnext' = nnext + 1
    /\ UNCHANGED <<hvars, svars, mvars, ivars, nctx, nmtx, nlist, nsnap, nfut>>

\* run(f): mutex_type::scoped_lock l(mtx_).
NestedRunLock(th) ==
    /\ npc[th] = "run_async"
    /\ nmtx[members(HandleOf(th))] = -1
    /\ nmtx' = [nmtx EXCEPT ![members(HandleOf(th))] = th]
    /\ nsnap' = [nsnap EXCEPT ![th] = nlist[members(HandleOf(th))]]
    /\ npc' = [npc EXCEPT ![th] = "run_lock"]
    /\ UNCHANGED <<hvars, svars, mvars, ivars, nreg, nctx, nlist, nheld, nowner, nfut, nnext>>

\* run(f): tasks_.push_back(std::move(result)) and the end of the lock scope.
NestedRunPush(th) ==
    /\ npc[th] = "run_lock"
    /\ nlist' = [nlist EXCEPT ![members(HandleOf(th))] =
                                  Append(nsnap[th], nheld[th])]
    /\ nmtx' = [nmtx EXCEPT ![members(HandleOf(th))] = -1]
    /\ nsnap' = [nsnap EXCEPT ![th] = <<>>]
    /\ nheld' = [nheld EXCEPT ![th] = 0]
    /\ npc' = [npc EXCEPT ![th] = "body"]
    /\ UNCHANGED <<hvars, svars, mvars, ivars, nreg, nctx, nowner, nfut, nnext>>

\* The function of a task that executes no region ends.
NestedTaskFinish(t) ==
    /\ npc[t] = "exec"
    /\ npc' = [npc EXCEPT ![t] = "done"]
    /\ UNCHANGED <<hvars, svars, mvars, ivars, nreg, nctx, nmtx, nlist, nsnap, nheld, nowner, nfut,
                   nnext>>

\* The body of a region returns; trh.wait() follows.
NestedBodyReturn(th) ==
    /\ npc[th] = "body"
    /\ npc' = [npc EXCEPT ![th] = "when"]
    /\ UNCHANGED <<hvars, svars, mvars, ivars, nreg, nctx, nmtx, nlist, nsnap, nheld, nowner, nfut,
                   nnext>>

\* when(): mutex_type::scoped_lock l(mtx_).
NestedWhenLock(th) ==
    /\ npc[th] = "when"
    /\ nmtx[members(HandleOf(th))] = -1
    /\ nmtx' = [nmtx EXCEPT ![members(HandleOf(th))] = th]
    /\ npc' = [npc EXCEPT ![th] = "when_locked"]
    /\ UNCHANGED <<hvars, svars, mvars, ivars, nreg, nctx, nlist, nsnap, nheld, nowner, nfut,
                   nnext>>

\* when(): std::swap(tasks_, active), the end of the lock scope, and the
\* future that is returned to wait() or to the destructor.
NestedWhenSwap(th) ==
    /\ npc[th] = "when_locked"
    /\ nfut' = [nfut EXCEPT ![HandleOf(th)] =
                               when(nlist[members(HandleOf(th))], <<>>)]
    /\ nlist' = [nlist EXCEPT ![members(HandleOf(th))] = <<>>]
    /\ nmtx' = [nmtx EXCEPT ![members(HandleOf(th))] = -1]
    /\ npc' = [npc EXCEPT ![th] = IF nctx[HandleOf(th)] = "dtor"
                                  THEN "wait_all" ELSE "get"]
    /\ UNCHANGED <<hvars, svars, mvars, ivars, nreg, nctx, nsnap, nheld, nowner, nnext>>

\* The function passed to dataflow runs and makes the future ready.
NestedDataflowRun(h) ==
    /\ nfut[h].state = "pending"
    /\ NestedAllReady(nfut[h].results)
    /\ nfut' = [nfut EXCEPT ![h].state = "ready"]
    /\ UNCHANGED <<hvars, svars, mvars, ivars, npc, nreg, nctx, nmtx, nlist, nsnap, nheld, nowner,
                   nnext>>

\* wait(): when().get() returns; task_region(f) goes on to destroy trh.
NestedWaitGet(th) ==
    /\ npc[th] = "get"
    /\ get(nfut[HandleOf(th)])
    /\ npc' = [npc EXCEPT ![th] = "when"]
    /\ nctx' = [nctx EXCEPT ![HandleOf(th)] = "dtor"]
    /\ nfut' = [nfut EXCEPT ![HandleOf(th)] = NoFuture]
    /\ UNCHANGED <<hvars, svars, mvars, ivars, nreg, nmtx, nlist, nsnap, nheld, nowner, nnext>>

\* ~task_region_handle(): hpx::wait_all(when()) returns and the region is
\* left; for the inner region this ends the task that executed it.
NestedWaitAll(th) ==
    /\ npc[th] = "wait_all"
    /\ wait_all(nfut[HandleOf(th)])
    /\ npc' = [npc EXCEPT ![th] = "done"]
    /\ nfut' = [nfut EXCEPT ![HandleOf(th)] = NoFuture]
    /\ UNCHANGED <<hvars, svars, mvars, ivars, nreg, nctx, nmtx, nlist, nsnap, nheld, nowner,
                   nnext>>

NextNested ==
    \/ \E th \in NThreads : NestedRunAsync(th)
    \/ \E th \in NThreads : NestedRunLock(th)
    \/ \E th \in NThreads : NestedRunPush(th)
    \/ \E t \in NTasks : NestedTaskFinish(t)
    \/ \E th \in NThreads : NestedBodyReturn(th)
    \/ \E th \in NThreads : NestedWhenLock(th)
    \/ \E th \in NThreads : NestedWhenSwap(th)
    \/ \E h \in Handles : NestedDataflowRun(h)
    \/ \E th \in NThreads : NestedWaitGet(th)
    \/ \E th \in NThreads : NestedWaitAll(th)

SpecNested == InitSync /\ [][NextNested]_vars

----------------------------------------------------------------------------
\* hpx/basic_execution/sender.hpp: the traits is_sender, sender_traits and
\* is_sender_to and the customization point connect.  All of it is decided
\* at compile time: a type is described by what the templates ask of it, a
\* query is an instantiation, and a call of connect either selects one of
\* the two expressions or does not compile.

\* How an operand reaches connect: T&& ("rv"), T& ("lv"), T const& ("clv").
Forms == {"rv", "lv", "clv"}

\* The type the forwarding reference deduces for an operand passed that way.
Deduced(form) ==
    IF form = "rv" THEN "T" ELSE IF form = "lv" THEN "T&" ELSE "T const&"

\* The (sender, receiver) forms an overload accepts: none at all, all of
\* them, rvalue senders only, or lvalue receivers only.
Overloads == {"none", "all", "rvalue_sender", "lvalue_receiver"}
Accepts(o, sf, rf) ==
    \/ o = "all"
    \/ (o = "rvalue_sender" /\ sf = "rv")
    \/ (o = "lvalue_receiver" /\ rf = "lv")

\* A sender type as the templates see it: std::is_move_constructible, the
\* embedded members, an explicit specialization of sender_traits for it (one
\* that exposes the three members, or one that exposes nothing), the
\* tag_invoke overload for connect_t and the member function connect, and
\* whether what each of them returns is an operation state.
SenderTypes ==
    [move_constructible : BOOLEAN,
     value_types : BOOLEAN, error_types : BOOLEAN, sends_done : BOOLEAN,
     specialization : {"none", "complete", "bare"},
     tag_invoke : Overloads, connect : Overloads,
     tag_invoke_state : BOOLEAN, connect_state : BOOLEAN]

\* A receiver type: is_receiver_v.
ReceiverTypes == [receiver : BOOLEAN]

\* What a class of traits exposes.
NoMembers ==
    [unspecialized |-> FALSE, value_types |-> FALSE, error_types |-> FALSE,
     sends_done |-> FALSE]

\* A has_sender_types that is content with any one of the three members.
has_any_sender_type(T) == T.value_types \/ T.error_types \/ T.sends_done

\* detail::has_sender_types<Sender>.
has_sender_types(T) == T.value_types /\ T.error_types /\ T.sends_done

\* detail::sender_traits_base<HasSenderTraits, Sender>: the embedded members,
\* or nothing but the marker __unspecialized.
sender_traits_base(HasSenderTraits, T) ==
    IF HasSenderTraits
    THEN [NoMembers EXCEPT !.value_types = TRUE, !.error_types = TRUE,
                           !.sends_done = TRUE]
    ELSE [NoMembers EXCEPT !.unspecialized = TRUE]

\* The cv- or reference-qualified type the partial specializations of
\* sender_traits derive from.
Unqualified(q) == IF q = "T const&" THEN "T const" ELSE "T"

RECURSIVE sender_traits(_, _)
\* sender_traits<Sender>, Sender being T with the qualification q: the
\* partial specializations strip the qualification, and for T itself it is
\* the user's explicit specialization or the primary template.
sender_traits(q, T) ==
    IF q # "T" THEN sender_traits(Unqualified(q), T)
    ELSE IF T.specialization = "complete"
         THEN sender_traits_base(TRUE, T)
         ELSE IF T.specialization = "bare"
              THEN NoMembers
              ELSE sender_traits_base(has_sender_types(T), T)

\* An overload set with only specialized(...).
specialized_always(traits) == TRUE

\* detail::specialized<Sender>(nullptr): the overload that takes a
\* sender_traits<Sender>::__unspecialized* is the better match whenever that
\* type exists, and it returns false.
specialized(traits) == ~traits.unspecialized

\* An is_sender that asks for std::is_move_constructible only.
is_sender_movable(q, T) == T.move_constructible

\* An is_sender that asks std::is_move_constructible about Sender as it is
\* written, without std::decay: a reference can always be move-constructed.
is_sender_no_decay(q, T) ==
    /\ (q \in {"T&", "T&&", "T const&"} \/ T.move_constructible)
    /\ specialized(sender_traits(q, T))

\* traits::is_sender<Sender>.
is_sender(q, T) ==
    T.move_constructible /\ specialized(sender_traits(q, T))

\* hpx::functional::is_tag_invocable<connect_t, Sender&&, Receiver&&>.
is_tag_invocable(T, sf, rf) == Accepts(T.tag_invoke, sf, rf)

\* std::forward<Sender>(sender).connect(std::forward<Receiver>(rcv)) is a
\* valid expression.
has_connect(T, sf, rf) == Accepts(T.connect, sf, rf)

\* No overload is viable: the expression is not valid.
NoMatch == [path |-> "no_match", state |-> FALSE]

\* A dispatch that tries the member function first.
tag_invoke_impl_member_first(T, sf, rf) ==
    IF has_connect(T, sf, rf)
    THEN [path |-> "member", state |-> T.connect_state]
    ELSE IF is_tag_invocable(T, sf, rf)
         THEN [path |-> "tag_invoke", state |-> T.tag_invoke_state]
         ELSE NoMatch

\* connect_t::tag_invoke_impl(IsTagInvocable{}, ...): the overload for
\* std::true_type is tag_invoke(*this, sender, rcv), the one for
\* std::false_type is sender.connect(rcv).
tag_invoke_impl(T, sf, rf) ==
    IF is_tag_invocable(T, sf, rf)
    THEN [path |-> "tag_invoke", state |-> T.tag_invoke_state]
    ELSE IF has_connect(T, sf, rf)
         THEN [path |-> "member", state |-> T.connect_state]
         ELSE NoMatch

\* An operation_select that has an overload for std::false_type too.
operation_select_any(T, sf, rf) == tag_invoke_impl(T, sf, rf)

\* connect_t::operation_select(IsSender{}, ...): there is an overload for
\* std::true_type only.
operation_select(T, sf, rf) ==
    IF is_sender(Deduced(sf), T) THEN tag_invoke_impl(T, sf, rf) ELSE NoMatch

\* hpx::traits::is_callable<connect_t(Sender, Receiver)>: the declaration of
\* operator() can be instantiated; its body is not looked at.
is_callable(T, sf, rf) == operation_select(T, sf, rf).path # "no_match"

\* connect(s, r), a call of connect_t::operator(): not declared for the
\* operands, or stopped by the static_assert in its body, or the selected
\* expression.
connect(T, sf, rf) ==
    IF ~is_callable(T, sf, rf) THEN "no_match"
    ELSE IF ~operation_select(T, sf, rf).state THEN "static_assert"
         ELSE operation_select(T, sf, rf).path

\* An is_sender_to_impl<true, ...> that asks for all nine forms.
is_sender_to_impl_all(T, R) ==
    \A sf \in Forms : \A rf \in Forms : is_callable(T, sf, rf)

\* detail::is_sender_to_impl<true, Sender, Receiver>: is_callable for
\* Sender&&, Sender&, Sender const& with Receiver&&, Receiver&,
\* Receiver const&, joined by ||.
is_sender_to_impl(T, R) ==
    \E sf \in Forms : \E rf \in Forms : is_callable(T, sf, rf)

\* traits::is_sender_to<Sender, Receiver>.
is_sender_to(T, R) ==
    IF is_sender("T", T) /\ R.receiver THEN is_sender_to_impl(T, R) ELSE FALSE

\* Any sender type and any receiver type.
SenderInit ==
    /\ Sender \in SenderTypes
    /\ Receiver \in ReceiverTypes
    /\ probe = NoProbe

\* is_sender<Sender>::value is instantiated for Sender passed in form sf.
InstantiateIsSender(sf) ==
    /\ probe' = [kind |-> "is_sender", sf |-> sf, rf |-> "rv",
                 value |-> is_sender(Deduced(sf), Sender)]
    /\ UNCHANGED <<hvars, nvars, mvars, ivars, Sender, Receiver>>

\* is_sender_to<Sender, Receiver>::value is instantiated.
InstantiateIsSenderTo ==
    /\ probe' = [kind |-> "is_sender_to", sf |-> "rv", rf |-> "rv",
                 value |-> is_sender_to(Sender, Receiver)]
    /\ UNCHANGED <<hvars, nvars, mvars, ivars, Sender, Receiver>>

\* connect(s, r) is compiled for operands passed in the forms sf and rf.
CallConnect(sf, rf) ==
    /\ probe' = [kind |-> "connect", sf |-> sf, rf |-> rf,
                 value |-> connect(Sender, sf, rf)]
    /\ UNCHANGED <<hvars, nvars, mvars, ivars, Sender, Receiver>>

NextSender ==
    \/ \E sf \in Forms : InstantiateIsSender(sf)
    \/ InstantiateIsSenderTo
    \/ \E sf \in Forms : \E rf \in Forms : CallConnect(sf, rf)

InitSender ==
    HandleInit /\ mode = "sync" /\ NestedInit /\ SenderInit /\ MpiIdle /\ InitIdle

SpecSender == InitSender /\ [][NextSender]_vars

\* The ways of writing the sender type that sender_traits has a partial
\* specialization for, and the type itself.
Qualifications == {"T", "T const", "T volatile", "T&", "T&&"}

\* is_sender<Sender> and sender_traits<Sender> are instantiated for Sender
\* written with the qualification q.
InstantiateQualified(q) ==
    /\ probe' = [kind |-> "qualified", sf |-> q, rf |-> "rv",
                 value |-> is_sender(q, Sender),
                 traits |-> sender_traits(q, Sender)]
    /\ UNCHANGED <<hvars, nvars, mvars, ivars, Sender, Receiver>>

NextQualified == \E q \in Qualifications : InstantiateQualified(q)

SpecQualified == InitSender /\ [][NextQualified]_vars

----------------------------------------------------------------------------
\* hpx::util::mpi_environment (src/unnamed/part_001).  Calls of init and
\* finalize are made one after the other; the lock guards are used by one
\* thread while another thread may take mtx_ directly.

MpiErrors == {"MPI_ERR_OTHER", "MPI_ERR_ARG"}

\* bool mpi_environment::multi_threaded()
multi_threaded == provided_threading_flag_ >= MPI_THREAD.SERIALIZED

\* int mpi_environment::init(int*, char***, required, minimal, int& provided):
\* the outcomes the call can have in the current state.  Each outcome gives
\* the value returned, whether HPX_THROW_EXCEPTION was reached, the value
\* left in has_called_init_, the state of MPI, and what was stored in
\* `provided`.  MPI may provide any thread level, whatever was required, and
\* a failing MPI_Init_thread may or may not store a level.
mpi_init_thread(required, minimal) ==
    LET stay(r) == [retval |-> r, throws |-> FALSE, called |-> FALSE,
                    mpi |-> mpi, by |-> mpi_by, level |-> mpi_level,
                    wrote |-> FALSE, provided |-> MPI_THREAD.SINGLE]
    IN  {stay(r) : r \in MpiErrors}
        \cup
        IF mpi # "uninit"
        THEN {stay("MPI_SUCCESS")}
        ELSE {stay(r) : r \in MpiErrors}
             \cup {[stay(r) EXCEPT !.wrote = TRUE, !.provided = p] :
                       r \in MpiErrors, p \in ThreadLevels}
             \cup {[retval |-> "MPI_SUCCESS", throws |-> p < minimal,
                    called |-> ~(p < minimal), mpi |-> "init",
                    by |-> "component", level |-> p,
                    wrote |-> TRUE, provided |-> p] : p \in ThreadLevels}

\* A direct call of the five-argument init, `provided` being a variable of
\* the caller.
InitThread(required, minimal) ==
    /\ \E o \in mpi_init_thread(required, minimal) :
        /\ has_called_init_' = o.called
        /\ mpi' = o.mpi
        /\ mpi_by' = o.by
        /\ mpi_level' = o.level
    /\ init_minimal' = minimal
    /\ UNCHANGED <<hvars, nvars, svars, ivars, enabled_,
                   provided_threading_flag_, finalizes, mmtx, guard>>

\* finalize() without the test of MPI_Finalized.
finalize_unchecked ==
    /\ IF enabled_ /\ has_called_init_
       THEN /\ mpi' = "finalized"
            /\ finalizes' = finalizes + 1
       ELSE UNCHANGED <<mpi, finalizes>>
    /\ UNCHANGED <<hvars, nvars, svars, ivars, enabled_, has_called_init_,
                   provided_threading_flag_, mpi_by, mpi_level, init_minimal,
                   mmtx, guard>>

\* void mpi_environment::init(int*, char***, runtime_configuration&).  check
\* is what check_mpi_environment(rtcfg) returns, multithreaded whether the
\* configuration asks for MPI_THREAD_MULTIPLE.
mpi_environment_init(check, multithreaded) ==
    IF enabled_
    THEN UNCHANGED vars
    ELSE IF ~check
    THEN /\ enabled_' = FALSE
         /\ has_called_init_' = FALSE
         /\ UNCHANGED <<hvars, nvars, svars, ivars, provided_threading_flag_,
                        mpi, mpi_by, mpi_level, init_minimal, finalizes,
                        mmtx, guard>>
    ELSE LET required == IF multithreaded THEN MPI_THREAD.MULTIPLE
                                          ELSE MPI_THREAD.SINGLE
             minimal == MPI_THREAD.SINGLE
         IN  /\ \E o \in mpi_init_thread(required, minimal) :
                 LET flag == IF o.wrote THEN o.provided
                                        ELSE provided_threading_flag_
                 IN  /\ provided_threading_flag_' = flag
                     /\ mpi' = o.mpi
                     /\ mpi_by' = o.by
                     /\ mpi_level' = o.level
                     /\ IF o.throws
                        THEN enabled_' = TRUE /\ has_called_init_' = FALSE
                        ELSE IF o.retval \notin {"MPI_SUCCESS", "MPI_ERR_OTHER"}
                        THEN enabled_' = FALSE /\ has_called_init_' = o.called
                        ELSE IF flag = MPI_THREAD.FUNNELED
                        THEN enabled_' = FALSE /\ has_called_init_' = FALSE
                        ELSE enabled_' = TRUE /\ has_called_init_' = o.called
             /\ init_minimal' = minimal
             /\ UNCHANGED <<hvars, nvars, svars, ivars, finalizes, mmtx, guard>>

\* void mpi_environment::finalize()
finalize ==
    /\ IF enabled_ /\ has_called_init_ /\ mpi # "finalized"
       THEN /\ mpi' = "finalized"
            /\ finalizes' = finalizes + 1
       ELSE UNCHANGED <<mpi, finalizes>>
    /\ UNCHANGED <<hvars, nvars, svars, ivars, enabled_, has_called_init_,
                   provided_threading_flag_, mpi_by, mpi_level, init_minimal,
                   mmtx, guard>>

\* The application initializes or finalizes MPI itself, which is what the
\* tests of MPI_Initialized and MPI_Finalized are there for.
OtherMpiInit ==
    /\ mpi = "uninit"
    /\ mpi' = "init"
    /\ mpi_by' = "other"
    /\ mpi_level' \in ThreadLevels
    /\ UNCHANGED <<hvars, nvars, svars, ivars, enabled_, has_called_init_,
                   provided_threading_flag_, init_minimal, finalizes, mmtx,
                   guard>>

OtherMpiFinalize ==
    /\ mpi = "init"
    /\ mpi' = "finalized"
    /\ UNCHANGED <<hvars, nvars, svars, ivars, enabled_, has_called_init_,
                   provided_threading_flag_, mpi_by, mpi_level, init_minimal,
                   finalizes, mmtx, guard>>

\* mtx_.unlock() called by the guard.  Unlocking a mutex the caller does not
\* hold is undefined: the mutex is released or left as it is.
mtx_unlock ==
    mmtx' \in (IF mmtx = "guard" THEN {"free"} ELSE {"free", mmtx})

GuardKinds == {"scoped_lock", "scoped_try_lock"}

\* The constructors of scoped_lock and scoped_try_lock.  One guard object is
\* observed at a time; the next one is made when the last one is gone.
GuardConstruct(kind) ==
    /\ guard.phase \in {"none", "gone"}
    /\ IF kind = "scoped_lock"
       THEN IF ~multi_threaded
            THEN /\ mmtx = "free"
                 /\ mmtx' = "guard"
                 /\ guard' = [kind |-> kind, phase |-> "alive",
                              locked |-> FALSE, locks |-> 1, unlocks |-> 0]
            ELSE /\ guard' = [kind |-> kind, phase |-> "alive",
                              locked |-> FALSE, locks |-> 0, unlocks |-> 0]
                 /\ UNCHANGED mmtx
       ELSE IF ~multi_threaded
            THEN IF mmtx = "free"
                 THEN /\ mmtx' = "guard"
                      /\ guard' = [kind |-> kind, phase |-> "alive",
                                   locked |-> TRUE, locks |-> 1, unlocks |-> 0]
                 ELSE /\ guard' = [kind |-> kind, phase |-> "alive",
                                   locked |-> FALSE, locks |-> 0, unlocks |-> 0]
                      /\ UNCHANGED mmtx
            ELSE /\ guard' = [kind |-> kind, phase |-> "alive",
                              locked |-> TRUE, locks |-> 0, unlocks |-> 0]
                 /\ UNCHANGED mmtx
    /\ UNCHANGED <<hvars, nvars, svars, ivars, enabled_, has_called_init_,
                   provided_threading_flag_, mpi, mpi_by, mpi_level,
                   init_minimal, finalizes>>

\* What unlock() and the destructor do to the mutex, the guard then being
\* in phase ph.  scoped_lock keeps no record of having unlocked;
\* scoped_try_lock::unlock() clears `locked`, its destructor does not.
GuardRelease(ph) ==
    IF guard.kind = "scoped_lock"
    THEN IF ~multi_threaded
         THEN /\ mtx_unlock
              /\ guard' = [guard EXCEPT !.unlocks = @ + 1, !.phase = ph]
         ELSE /\ guard' = [guard EXCEPT !.phase = ph]
              /\ UNCHANGED mmtx
    ELSE IF ~multi_threaded /\ guard.locked
         THEN /\ mtx_unlock
              /\ guard' = [guard EXCEPT !.unlocks = @ + 1, !.phase = ph,
                                        !.locked = IF ph = "unlocked" THEN FALSE ELSE @]
         ELSE /\ guard' = [guard EXCEPT !.phase = ph]
              /\ UNCHANGED mmtx

\* void unlock(), called once on a live guard.
GuardUnlock ==
    /\ guard.phase = "alive"
    /\ GuardRelease("unlocked")
    /\ UNCHANGED <<hvars, nvars, svars, ivars, enabled_, has_called_init_,
                   provided_threading_flag_, mpi, mpi_by, mpi_level,
                   init_minimal, finalizes>>

\* ~scoped_lock() and ~scoped_try_lock()
GuardDestroy ==
    /\ guard.phase \in {"alive", "unlocked"}
    /\ GuardRelease("gone")
    /\ UNCHANGED <<hvars, nvars, svars, ivars, enabled_, has_called_init_,
                   provided_threading_flag_, mpi, mpi_by, mpi_level,
                   init_minimal, finalizes>>

\* Another thread takes and releases mtx_.
OtherLock ==
    /\ mmtx = "free"
    /\ mmtx' = "other"
    /\ UNCHANGED <<hvars, nvars, svars, ivars, enabled_, has_called_init_,
                   provided_threading_flag_, mpi, mpi_by, mpi_level,
                   init_minimal, finalizes, guard>>

OtherUnlock ==
    /\ mmtx = "other"
    /\ mmtx' = "free"
    /\ UNCHANGED <<hvars, nvars, svars, ivars, enabled_, has_called_init_,
                   provided_threading_flag_, mpi, mpi_by, mpi_level,
                   init_minimal, finalizes, guard>>

NextMpi ==
    \/ \E check \in BOOLEAN, multithreaded \in BOOLEAN :
           mpi_environment_init(check, multithreaded)
    \/ \E required \in ThreadLevels, minimal \in ThreadLevels :
           InitThread(required, minimal)
    \/ finalize
    \/ OtherMpiInit
    \/ OtherMpiFinalize
    \/ \E kind \in GuardKinds : GuardConstruct(kind)
    \/ GuardUnlock
    \/ GuardDestroy
    \/ OtherLock
    \/ OtherUnlock

SpecMpi == InitSync /\ [][NextMpi]_vars

----------------------------------------------------------------------------
\* hpx::init (hpx_init_impl.hpp): the overloads that take an entry function
\* of the user, and the overloads they call.  An overload is an operator
\* that gives what detail::run_or_start is finally called with.

UserFunctions == {"f1", "f2"}
Modes == {"console", "worker", "connect", "local", "default_"}
\* argc and argv as the caller passes them: a command line, argc == 0,
\* argv == nullptr; "absent" for an overload without these parameters.
CallerArgs == {"cmdline", "argc0", "argv_null"}

\* argc == 0 || argv == nullptr
NoArgs(args) == args \in {"argc0", "argv_null"}

\* The function objects handed on: the user's f itself, f bound into
\* detail::init_helper, and ::hpx_main.
Direct(f) == [fn |-> "direct", user |-> f]
Helper(f) == [fn |-> "init_helper", user |-> f]
HpxMain == [fn |-> "hpx_main", user |-> "none"]

run_or_start(f, args, params) ==
    [kind |-> "run_or_start", f |-> f, args |-> args, mode |-> params.mode]

\* init(function_nonser<int(variables_map&)> const&, int, char**, init_params const&)
init_A(f, args, params) == run_or_start(f, args, params)

\* init(function_nonser<int(int, char**)> const&, int, char**, init_params const&)
init_B(f, args, params) ==
    LET main_f == Helper(f)
    IN  IF NoArgs(args) THEN init_A(main_f, "dummy", params)
                        ELSE init_A(main_f, args, params)

\* init(int, char**, init_params const&)
init_C(args, params) ==
    LET main_f == HpxMain
    IN  IF NoArgs(args) THEN init_A(main_f, "dummy", params)
                        ELSE init_A(main_f, args, params)

\* init(function_nonser<int(variables_map&)> const&, options_description const&,
\*      int, char**, vector<string> const&, startup, shutdown, runtime_mode)
init_F(f, args, rmode) ==
    LET iparams == [mode |-> rmode]
    IN  init_A(Direct(f), args, iparams)

\* init(int (*)(variables_map&), options_description const&, int, char**,
\*      startup, shutdown, runtime_mode)
init_G(f, args, rmode) ==
    LET iparams == [mode |-> rmode]
    IN  init_A(Direct(f), args, iparams)

\* init(int (*)(variables_map&), std::string const&, int, char**, runtime_mode)
init_O(f, args, rmode) ==
    LET iparams == [mode |-> rmode]
    IN  IF NoArgs(args) THEN init_C("dummy", iparams)
                        ELSE init_A(Direct(f), args, iparams)

\* init(int (*)(variables_map&), int, char**, runtime_mode); default is the
\* mode of a default-constructed init_params.
init_P(f, args, rmode, default) ==
    LET iparams == [mode |-> default]
    IN  IF NoArgs(args) THEN init_C("dummy", iparams)
                        ELSE init_A(Direct(f), args, [iparams EXCEPT !.mode = rmode])

\* init(function_nonser<int(int, char**)> const&, std::string const&, int,
\*      char**, runtime_mode), after its HPX_ASSERT
init_Q(f, args, rmode) ==
    LET iparams == [mode |-> rmode]
    IN  init_B(f, args, iparams)

\* init(function_nonser<int(int, char**)> const&, int, char**,
\*      vector<string> const&, runtime_mode), after its HPX_ASSERT
init_R(f, args, rmode) ==
    LET iparams == [mode |-> rmode]
    IN  init_B(f, args, iparams)

\* init(function_nonser<int(int, char**)> const&, vector<string> const&,
\*      runtime_mode)
init_S(f, rmode) ==
    LET iparams == [mode |-> rmode]
    IN  init_B(f, "dummy", iparams)

\* HPX_ASSERT(argc != 0 && argv != nullptr) stopped the program.
AssertFailed == [kind |-> "assert", f |-> HpxMain, args |-> "none",
                 mode |-> "none"]

InitOverloads == {"B", "F", "G", "O", "P", "Q", "R", "S"}

\* What the call of overload o can end in.  A failing HPX_ASSERT stops the
\* program in a build with assertions and does nothing in one without; the
\* mode of a default-constructed init_params is any of the modes.
init(o, f, args, rmode) ==
    CASE o = "B" -> {init_B(f, args, [mode |-> rmode])}
      [] o = "F" -> {init_F(f, args, rmode)}
      [] o = "G" -> {init_G(f, args, rmode)}
      [] o = "O" -> {init_O(f, args, rmode)}
      [] o = "P" -> {init_P(f, args, rmode, default) : default \in Modes}
      [] o = "Q" -> {init_Q(f, args, rmode)}
                    \cup (IF NoArgs(args) THEN {AssertFailed} ELSE {})
      [] o = "R" -> {init_R(f, args, rmode)}
                    \cup (IF NoArgs(args) THEN {AssertFailed} ELSE {})
      [] o = "S" -> {init_S(f, rmode)}

\* The program calls hpx::init.
CallInit(o, f, args, rmode) ==
    /\ (o = "S") = (args = "absent")
    /\ call' = [overload |-> o, f |-> f, args |-> args, mode |-> rmode]
    /\ launch' \in init(o, f, args, rmode)
    /\ UNCHANGED <<hvars, nvars, svars, mvars>>

NextInit ==
    \E o \in InitOverloads, f \in UserFunctions,
       args \in CallerArgs \cup {"absent"}, rmode \in Modes :
        CallInit(o, f, args, rmode)

SpecInit == InitSync /\ [][NextInit]_vars

----------------------------------------------------------------------------
\* Vocabulary of the properties.

Spawned(t) == pc[t] # "unborn"
Finished(t) == pc[t] = "done"
Failed(t) == pc[t] = "done" /\ texc[t] # <<>>
FailedPlain(t) == Failed(t) /\ ~texc[t][1].list
FailedList(t) == Failed(t) /\ texc[t][1].list
InList(s, x) == \E i \in 1..Len(s) : s[i] = x
\* The future of t has been pushed to tasks_ by the run call that made it.
Registered(t) == Spawned(t) /\ \A th \in Threads : held[th] # t
\* t was spawned by f, or by a task that f spawned.
DepthAtMostTwo(t) ==
    parent[t] = 0 \/ (parent[t] \in Tasks /\ parent[parent[t]] = 0)
NoListIn(s) == \A i \in 1..Len(s) : ~s[i].list
CausesOf(exc) == IF exc = <<>> THEN <<>> ELSE exc[1].causes
FailedTasks == {t \in Tasks : Failed(t)}
\* f raised an error of its own (not one a wait() call handed to it).
BodyRaisedItself == fexc \in BodyErrors
EntryLeft == pc[0] = "done"
\* No when() has swapped the list yet.
NoDrainYet ==
    /\ waits = 0
    /\ \/ ctx = "body"
       \/ (ctx \in {"final", "ret"} /\ pc[0] \in {"when", "when_locked"})
\* The run calls that have returned, by the task each of them started.
RunCallsDone == {t \in Tasks : Registered(t)}
\* The threads inside a lock scope of run or when().
InLockScope == {th \in Threads : pc[th] \in {"run_lock", "when_locked"}}
\* The threads that execute a region of the nested run.
RegionThreads == {th \in NThreads : th = 0 \/ th = nreg}
\* Every task that run registered on handle h has finished.
OwnTasksFinished(h) == \A t \in NTasks : nowner[t] = h => npc[t] = "done"
\* A call of connect that compiles.
Accepted(v) == v \in {"tag_invoke", "member"}
\* The traits expose value types, error types and the done flag.
ExposesAll(traits) ==
    traits.value_types /\ traits.error_types /\ traits.sends_done
\* Whether the result of the expression connect selects is an operation
\* state: the customization's if there is one for the forms, else the
\* member function's.
SelectedState(T, sf, rf) ==
    IF is_tag_invocable(T, sf, rf) THEN T.tag_invoke_state ELSE T.connect_state
\* The type is not a sender: it cannot be moved, or it neither embeds the
\* three members nor has an explicit specialization of sender_traits.
NotASender(T) ==
    \/ ~T.move_constructible
    \/ (T.specialization = "none" /\ ~has_sender_types(T))
\* What an error contributes to an aggregator: its causes if it is an
\* aggregator itself, else the error as one cause.
Contribution(e) == IF e.list THEN e.causes ELSE <<e>>
\* How many of value_types, error_types and sends_done the type T embeds.
Embedded(T) ==
    Cardinality({m \in {"value_types", "error_types", "sends_done"} : T[m]})
\* How often x occurs in the sequence s.
Occurrences(s, x) == Cardinality({i \in 1..Len(s) : s[i] = x})
\* The lists a registered future can be in: the pending list and the lists
\* that a when() swapped out and that its dataflow still holds.
HoldingLists == <<tasks_, futs["w"].results, futs["r"].results>>
RECURSIVE TaskErrorsUpTo(_)
\* The errors of the failed tasks among 1..n, in the order of the run calls
\* of f, which is the order of the numbers hpx::async handed out.
TaskErrorsUpTo(n) ==
    IF n = 0 THEN <<>>
    ELSE TaskErrorsUpTo(n - 1) \o (IF Failed(n) THEN <<texc[n][1]>> ELSE <<>>)
\* The task whose function raised the cause e (0 or MaxTasks + 1: the body).
CauseOwner(e) == IF e.id < 0 THEN 0 - e.id ELSE e.id

----------------------------------------------------------------------------
\* C1: when a wait() call returns, normally or by raising, every task that
\* had been registered on the handle before the call has completed: the
\* tasks registered so far that are no longer in the pending list are all
\* finished.
C1_WaitJoinsRegistered ==
    pc[0] = "wait_ret" =>
        \A t \in Tasks : Registered(t) /\ ~InList(tasks_, t) => Finished(t)

C1_Witness ==
    /\ pc[0] = "wait_ret"
    /\ ctx = "body"
    /\ Len(futs["w"].results) >= 2
    /\ \A t \in Tasks : Spawned(t) => Finished(t)

\* C2 as stated: when task_region(f) is left, every task spawned on the
\* handle, by f or by a task at any depth, has finished.
C2_AllSpawnedFinished ==
    EntryLeft => \A t \in Tasks : Spawned(t) => Finished(t)

\* C2 as amended: when task_region(f) is left, every task spawned by f has
\* finished, and so has every task that a task spawned by f registered on
\* the handle.
C2_SpawnedToDepthTwoFinished ==
    EntryLeft => \A t \in Tasks : Spawned(t) /\ DepthAtMostTwo(t) => Finished(t)

C2_Witness ==
    /\ EntryLeft
    /\ \E t \in Tasks :
          /\ Finished(t)
          /\ parent[t] \in Tasks
          /\ parent[parent[t]] = 0

\* C3: task_region(f) with K failed tasks, each raising one plain error,
\* raises a composite with exactly K causes, plus one if f raised a plain
\* error of its own; with K = 0 and no error of f it raises nothing.
ThrownCount == Len(CausesOf(thrown))

C4_BodyErrorInFuture ==
    (futs["r"].state = "ready" /\ fexc # <<>>) =>
        /\ futs["r"].exc # <<>>
        /\ \A i \in 1..Len(Caught(<<>>, fexc)) :
              InList(CausesOf(futs["r"].exc), Caught(<<>>, fexc)[i])

\* C5: the future task_region(policy, f) returned is ready only when f has
\* returned and every task f spawned has completed.
C5_FutureReadyAfterTasks ==
    futs["r"].state = "ready" =>
        /\ pc[0] \in {"when", "when_locked", "wait_all", "done"}
        /\ ctx = "dtor"
        /\ \A t \in Tasks : Spawned(t) /\ parent[t] = 0 => Finished(t)

C5_Witness ==
    /\ futs["r"].state = "ready"
    /\ Len(futs["r"].results) >= 2
    /\ pc[0] = "done"

\* C6: when wait() raises, every task of the generation it swapped out has
\* finished, and if each failed task of the generation raised one plain
\* error the composite has as many causes as the generation has failed
\* tasks.
C6_FailureDoesNotCutJoin ==
    (pc[0] = "wait_ret" /\ wexc # <<>>) =>
        LET r == futs["w"].results
            failed == {i \in 1..Len(r) : Failed(r[i])}
        IN  /\ \A i \in 1..Len(r) : Finished(r[i])
            /\ (\A i \in failed : FailedPlain(r[i]))
                   => Len(CausesOf(wexc)) = Cardinality(failed)

C6_Witness ==
    /\ pc[0] = "wait_ret"
    /\ Len(futs["w"].results) = 3
    /\ Cardinality({t \in Tasks : FailedPlain(t)}) = 2
    /\ Cardinality({t \in Tasks : Finished(t)}) = 3
    /\ Len(CausesOf(wexc)) = 2

\* C7: a task that ended with an exception_list contributes its causes one
\* by one to what wait() raises, and no exception_list is a cause of what
\* wait(), task_region(f) or the returned future raise.
C7_CompositeFlattened ==
    /\ (pc[0] = "wait_ret" /\ wexc # <<>>) =>
          LET r == futs["w"].results
          IN  /\ wexc[1].list
              /\ NoListIn(CausesOf(wexc))
              /\ \A i \in 1..Len(r) : FailedList(r[i]) =>
                    \A j \in 1..Len(CausesOf(texc[r[i]])) :
                        InList(CausesOf(wexc), CausesOf(texc[r[i]])[j])
    /\ NoListIn(CausesOf(thrown))
    /\ NoListIn(CausesOf(futs["r"].exc))

C7_Witness ==
    /\ pc[0] = "wait_ret"
    /\ \E i \in 1..Len(futs["w"].results) : FailedList(futs["w"].results[i])
    /\ \E i \in 1..Len(futs["w"].results) : FailedPlain(futs["w"].results[i])
    /\ Len(CausesOf(wexc)) = 3

\* C8: once a task spawned on the handle has failed, run raises
\* task_canceled instead of spawning: no step starts a task while a failed
\* task exists.
C8_NoSpawnAfterFailure ==
    [][(\E t \in Tasks : Failed(t)) => nextId' = nextId]_vars

C10_BodyErrorKeepsJoin ==
    (mode = "sync" /\ fexc # <<>> /\ result # "none") =>
        /\ result = "raised"
        /\ \A t \in Tasks : Spawned(t) /\ parent[t] = 0 => Finished(t)

C10_Witness ==
    /\ mode = "sync"
    /\ BodyRaisedItself
    /\ result = "raised"
    /\ pc[0] = "when"
    /\ nextId = 3
    /\ \A t \in Tasks : Spawned(t) => Finished(t)

\* C11: the destructor drains the pending list.  The destructor's when()
\* takes every future that is in tasks_ at its swap, and the destructor ends
\* only when each of them is ready, whether task_region(f) returns or raises:
\* no task that was pending at scope end runs on once the handle is gone.
C11_ScopeExitDrains ==
    [][/\ (pc[0] = "when_locked" /\ ctx = "dtor" /\ pc'[0] = "wait_all") =>
              \A i \in 1..Len(tasks_) : InList(futs'["w"].results, tasks_[i])
       /\ (pc[0] = "wait_all" /\ pc'[0] = "done") =>
              \A i \in 1..Len(futs["w"].results) :
                  pc'[futs["w"].results[i]] = "done"]_vars

\* The destructor found a task in tasks_ on the failure path and has waited
\* until it was ready.
C11_Witness ==
    /\ pc[0] = "wait_all"
    /\ result = "raised"
    /\ Len(futs["w"].results) > 0
    /\ futs["w"].state = "ready"

\* C12: a wait() call joins the generation it swapped out.  The swap of a
\* wait() call hands exactly the content of tasks_ to the call's future and
\* leaves the list empty; the call returns when those tasks are finished,
\* and every cause of what it raises comes from one of them.  A task that
\* run registers after the swap is in neither.
C12_WaitJoinsItsGeneration ==
    [][/\ (pc[0] = "when_locked" /\ ctx \in {"body", "final"}
              /\ pc'[0] = "get") =>
              /\ futs'["w"].results = tasks_
              /\ tasks_' = <<>>
       /\ (pc[0] = "get" /\ pc'[0] = "wait_ret") =>
              /\ \A i \in 1..Len(futs["w"].results) :
                    pc[futs["w"].results[i]] = "done"
              /\ \A i \in 1..Len(CausesOf(wexc')) :
                    InList(futs["w"].results, CauseOwner(CausesOf(wexc')[i]))]_vars

\* A wait() call has returned, raising the error of a task of its
\* generation, while one task registered after its swap has failed and
\* another one is still running.
C12_Witness ==
    /\ pc[0] = "wait_ret"
    /\ wexc # <<>>
    /\ \E t \in Tasks : InList(tasks_, t) /\ Failed(t)
    /\ \E t \in Tasks : InList(tasks_, t) /\ ~Finished(t)

\* C13: mtx_ is never held across a wait.  As long as the handle exists, the
\* thread that holds mtx_ is between the lock and the push_back of run or
\* between the lock and the swap of when(); a thread that is blocked in get()
\* or wait_all() does not hold it.
C13_MutexOnlyForAppendAndSwap ==
    alive =>
        /\ mtx # -1 =>
              \/ (mtx = 0 /\ pc[0] = "when_locked")
              \/ pc[mtx] = "run_lock"
        /\ \A th \in Threads : pc[th] \in {"get", "wait_all"} => mtx # th

\* Thread 0 is blocked in get() on a future that is not ready while a task
\* holds mtx_ for the push_back of its own run call.
C13_Witness ==
    /\ pc[0] = "get"
    /\ futs["w"].state = "pending"
    /\ mtx \in Tasks
    /\ pc[mtx] = "run_lock"

\* C14: concurrent run calls lose no registration.  As long as no when() has
\* swapped the list, tasks_ holds one future for every run call that has
\* returned, each exactly once, whichever threads made the calls and however
\* their steps interleaved; at most one thread is inside a lock scope.
C14_NoRegistrationLost ==
    NoDrainYet =>
        /\ Len(tasks_) = Cardinality(RunCallsDone)
        /\ \A t \in RunCallsDone :
              Cardinality({i \in 1..Len(tasks_) : tasks_[i] = t}) = 1
        /\ Cardinality(InLockScope) <= 1

\* Three run calls made by different threads have returned and all three
\* futures are in the list, while a task that never needed the mutex has
\* finished and another one is still executing.
C14_Witness ==
    /\ NoDrainYet
    /\ Len(tasks_) = 3
    /\ \E t \in Tasks : parent[t] # 0
    /\ \E t \in Tasks : Finished(t)
    /\ \E t \in Tasks : pc[t] = "exec"

\* C15: two regions with different handles are independent.  The list of a
\* handle and the future its when() made hold only tasks that run
\* registered on that handle; a thread inside a lock scope holds the mutex
\* of its own handle and no other; and a thread blocked in wait() or in the
\* destructor of a handle can go on as soon as the tasks of that handle are
\* finished, whatever the tasks of the other handle do.
C15_HandlesIndependent ==
    /\ \A h \in Handles :
          /\ \A i \in 1..Len(nlist[h]) : nowner[nlist[h][i]] = h
          /\ \A i \in 1..Len(nfut[h].results) : nowner[nfut[h].results[i]] = h
    /\ \A th \in RegionThreads :
          /\ npc[th] \in {"run_lock", "when_locked"} =>
                \A h \in Handles : nmtx[h] = th <=> h = HandleOf(th)
          /\ (npc[th] \in {"get", "wait_all"}
                 /\ OwnTasksFinished(HandleOf(th))) =>
                ENABLED (\/ NestedDataflowRun(HandleOf(th))
                         \/ NestedWaitGet(th)
                         \/ NestedWaitAll(th))

\* The inner region has been left, its task having been waited on, while a
\* task registered on the outer handle before is still executing.
C15_Witness ==
    /\ nreg # 0
    /\ npc[nreg] = "done"
    /\ \E t \in NTasks : nowner[t] = "inner" /\ npc[t] = "done"
    /\ \E t \in NTasks :
          /\ t < nreg
          /\ InList(nlist["outer"], t)
          /\ npc[t] = "exec"

\* C17, as stated: is_sender_to<Sender, Receiver> is true if and only if
\* Sender is a sender, Receiver is a receiver and connect can be called for
\* every one of the nine forms of passing the two.
C17_SenderToAllNineForms ==
    probe.kind = "is_sender_to" =>
        (probe.value <=>
            /\ is_sender("T", Sender)
            /\ Receiver.receiver
            /\ \A sf \in Forms : \A rf \in Forms : is_callable(Sender, sf, rf))

\* C17, amended: is_sender_to<Sender, Receiver> is true if and only if
\* Sender is a sender, Receiver is a receiver and connect can be called for
\* at least one of the nine forms of passing the two.
C17_SenderToSomeForm ==
    probe.kind = "is_sender_to" =>
        (probe.value <=>
            /\ is_sender("T", Sender)
            /\ Receiver.receiver
            /\ \E sf \in Forms : \E rf \in Forms : is_callable(Sender, sf, rf))

\* The trait is true for a pair that connect can be called for in some of
\* the nine forms and not in others.
C17_Witness ==
    /\ probe.kind = "is_sender_to"
    /\ probe.value = TRUE
    /\ \E sf \in Forms : \E rf \in Forms : ~is_callable(Sender, sf, rf)

\* C18, as stated: connect(s, r) compiles if and only if a customization or
\* a member function connect exists for the operands and the result of the
\* one that is selected is an operation state.
C18_AcceptedIffPathAndState ==
    probe.kind = "connect" =>
        (Accepted(probe.value) <=>
            /\ \/ is_tag_invocable(Sender, probe.sf, probe.rf)
               \/ has_connect(Sender, probe.sf, probe.rf)
            /\ SelectedState(Sender, probe.sf, probe.rf))

\* C18, amended: connect(s, r) compiles if and only if the type of s is a
\* sender, a customization or a member function connect exists for the
\* operands, and the result of the one that is selected is an operation
\* state; in every other case the call does not compile.
C18_AcceptedIffSenderPathAndState ==
    probe.kind = "connect" =>
        /\ Accepted(probe.value) <=>
              /\ is_sender(Deduced(probe.sf), Sender)
              /\ \/ is_tag_invocable(Sender, probe.sf, probe.rf)
                 \/ has_connect(Sender, probe.sf, probe.rf)
              /\ SelectedState(Sender, probe.sf, probe.rf)
        /\ ~Accepted(probe.value) =>
              probe.value \in {"no_match", "static_assert"}

\* A call that compiles through the member function, for a sender without a
\* customization for these operands.
C18_Witness ==
    /\ probe.kind = "connect"
    /\ probe.value = "member"
    /\ ~is_tag_invocable(Sender, probe.sf, probe.rf)
    /\ Sender.tag_invoke # "none"

\* C19: connect resolves in a fixed order.  Where a customization exists for
\* the operands the member function is never the one used, and the
\* customization is used whenever the call compiles; the member function is
\* used only where no customization exists; with neither the call does not
\* compile.
C19_CustomizationBeforeMember ==
    probe.kind = "connect" =>
        /\ is_tag_invocable(Sender, probe.sf, probe.rf) =>
              /\ probe.value # "member"
              /\ Accepted(probe.value) => probe.value = "tag_invoke"
        /\ probe.value = "tag_invoke" =>
              is_tag_invocable(Sender, probe.sf, probe.rf)
        /\ probe.value = "member" =>
              /\ ~is_tag_invocable(Sender, probe.sf, probe.rf)
              /\ has_connect(Sender, probe.sf, probe.rf)
        /\ (~is_tag_invocable(Sender, probe.sf, probe.rf)
               /\ ~has_connect(Sender, probe.sf, probe.rf)) =>
              probe.value = "no_match"

\* The customization is used for a sender that also has a member function
\* connect for the same operands, returning an operation state.
C19_Witness ==
    /\ probe.kind = "connect"
    /\ probe.value = "tag_invoke"
    /\ has_connect(Sender, probe.sf, probe.rf)
    /\ Sender.connect_state

\* C20, as stated: is_sender is true if and only if the type is
\* move-constructible and the sender_traits found for it expose value
\* types, error types and the done flag.
C20_SenderIffTraitsExposeAll ==
    probe.kind = "is_sender" =>
        (probe.value <=>
            /\ Sender.move_constructible
            /\ ExposesAll(sender_traits(Deduced(probe.sf), Sender)))

\* C20, amended: is_sender is true if and only if the type is
\* move-constructible and its sender_traits do not carry the marker
\* __unspecialized, which is the case when the type embeds value_types,
\* error_types and sends_done or when sender_traits is explicitly
\* specialized for it, whatever that specialization exposes.  With neither,
\* the traits carry the marker and the query is false, not an error.
C20_SenderIffNotUnspecialized ==
    probe.kind = "is_sender" =>
        /\ probe.value \in BOOLEAN
        /\ probe.value <=>
              /\ Sender.move_constructible
              /\ \/ has_sender_types(Sender)
                 \/ Sender.specialization # "none"
        /\ (Sender.specialization = "none" /\ ~has_sender_types(Sender)) =>
              /\ sender_traits(Deduced(probe.sf), Sender).unspecialized
              /\ probe.value = FALSE

\* A move-constructible type with an explicit specialization that exposes
\* nothing is classified as a sender.
C20_Witness ==
    /\ probe.kind = "is_sender"
    /\ probe.value = TRUE
    /\ Sender.specialization = "bare"
    /\ ~has_sender_types(Sender)

\* C21: connect(s, r) stands for the customization or for s.connect(r) only
\* if the type of s is a sender.  For a type that is not a sender the call
\* does not compile, whatever customization or member function connect
\* exists for the operands and whatever they return; a call that compiles
\* was made on a sender.
C21_NonSenderRejected ==
    probe.kind = "connect" =>
        /\ NotASender(Sender) => probe.value = "no_match"
        /\ Accepted(probe.value) => ~NotASender(Sender)

\* connect is rejected for a type that is not a sender although it has a
\* member function connect for the operands that returns an operation state.
C21_Witness ==
    /\ probe.kind = "connect"
    /\ NotASender(Sender)
    /\ has_connect(Sender, probe.sf, probe.rf)
    /\ Sender.connect_state
    /\ probe.value = "no_match"

\* C22 as stated: a run call made on the handle from inside a task that run
\* spawned on it registers nothing: every future in the list was pushed by
\* a call of the body f.
C22_InactiveRunRegistersNothing ==
    \A i \in 1..Len(tasks_) : parent[tasks_[i]] = 0

\* C22 as amended: a run call on a handle that is not active is not
\* detected.  As long as the handle exists no call is stopped, and a task
\* that a task registered is, while it runs, in the list of the handle or
\* among the futures a wait() or the destructor is joining.
C22_InactiveRunRegisters ==
    alive =>
        /\ \A th \in Threads : pc[th] # "fault"
        /\ \A t \in Tasks :
              (parent[t] \in Tasks /\ Registered(t) /\ ~Finished(t)) =>
                  \/ InList(tasks_, t)
                  \/ InList(futs["w"].results, t)

\* The destructor is joining a task that another task registered on the
\* handle, and the task is still running.
C22_Witness ==
    /\ pc[0] = "wait_all"
    /\ \E t \in Tasks :
          /\ parent[t] \in Tasks
          /\ InList(futs["w"].results, t)
          /\ ~Finished(t)

\* C23: what the entry point catches is added flattened.  When an error
\* escapes f, and when the final wait() raises, `errors` grows by the causes
\* of the error if it is an exception_list and by the error itself, as one
\* cause, if it is anything else; what was in `errors` before stays.
C23_CaughtErrorsFlattened ==
    [][/\ (fexc = <<>> /\ fexc' # <<>>) =>
              errors' = errors \o Contribution(fexc'[1])
       /\ (pc[0] = "wait_ret" /\ ctx = "final" /\ wexc # <<>>) =>
              errors' = errors \o Contribution(wexc[1])]_vars

\* f raised an exception_list of two causes by itself, one task failed with
\* a plain error, and task_region(f) raised a composite of three causes.
C23_Witness ==
    /\ mode = "sync"
    /\ BodyRaisedItself
    /\ fexc[1].list
    /\ Len(fexc[1].causes) = 2
    /\ Cardinality(FailedTasks) = 1
    /\ \A t \in FailedTasks : FailedPlain(t)
    /\ result = "raised"
    /\ ThrownCount = 3

\* C24: task_region_final has the contract of task_region.  The one step
\* task_region_final takes of its own is the call of task_region with the
\* same f and the same kind of result: after it the program is in the state
\* in which task_region starts, so the tasks that are waited for and the
\* result are those of task_region.
C24_FinalIsTaskRegion ==
    [][pc[0] = "final_call" => (HandleInit' /\ mode' = mode)]_vars

\* task_region_final(f) has been left with the composite of a failed task
\* and of the error of f, all tasks of the region being finished.
C24_Witness ==
    /\ EntryLeft
    /\ mode = "sync"
    /\ fexc = <<Plain(0)>>
    /\ Cardinality(FailedTasks) = 1
    /\ nextId = 3
    /\ \A t \in Tasks : Spawned(t) => Finished(t)
    /\ result = "raised"
    /\ ThrownCount = 2

\* C25: run does not wait for any task.  A thread that is inside run on an
\* existing handle returns from it, whether or not the function it spawned,
\* or any task registered earlier, ever finishes, and also while the body
\* is blocked in wait() on the same handle; only the destruction of the
\* handle under the call can keep it from returning.
C25_RunReturns ==
    \A th \in Threads :
        (pc[th] = "run_async") ~> (pc[th] = Exec(th) \/ ~alive)

\* A task has returned from a run call it made while the body was blocked
\* in wait(): the task it registered is in the new generation of the list
\* and has not finished, and the wait is still joining an unfinished task.
C25_Witness ==
    /\ pc[0] = "get"
    /\ ctx = "body"
    /\ ~AllReady(futs["w"].results)
    /\ \E t \in Tasks :
          /\ parent[t] \in Tasks
          /\ InList(tasks_, t)
          /\ pc[t] = "exec"
          /\ pc[parent[t]] = "exec"

\* C26: nothing cancels a task.  Every task that run has spawned runs to the
\* end of its function, whatever happens to the other tasks and to the body
\* meanwhile, and the outcome of a task that has ended is not touched again.
C26_TasksRunToCompletion ==
    /\ \A t \in Tasks : (pc[t] = "exec") ~> (pc[t] = "done")
    /\ [][\A t \in Tasks :
             /\ pc[t] = "exec" => pc'[t] \in {"exec", "done"}
             /\ pc[t] = "done" => (pc'[t] = "done" /\ texc'[t] = texc[t])]_vars

\* The body has raised, one task has failed and task_region(policy, f) has
\* been left with the future, while another registered task is still
\* executing its function.
C26_Witness ==
    /\ mode = "async"
    /\ fexc # <<>>
    /\ EntryLeft
    /\ \E t, u \in Tasks :
          /\ Failed(u)
          /\ Registered(t)
          /\ pc[t] = "exec"

\* C27: the destructor's join raises nothing.  When the destructor ends,
\* what the entry point returns or raises is what it was before the
\* destructor ran, also when a future the destructor waited for holds an
\* error.
C27_DestructorRaisesNothing ==
    [][(pc[0] = "wait_all" /\ pc'[0] = "done") =>
           /\ thrown' = thrown
           /\ result' = IF mode = "async" THEN "future" ELSE result]_vars

\* task_region(f) is returning normally and the join of the destructor has
\* ended with the error of a failed task.
C27_Witness ==
    /\ pc[0] = "wait_all"
    /\ result = "returned"
    /\ futs["w"].state = "ready"
    /\ futs["w"].exc # <<>>
    /\ \E i \in 1..Len(futs["w"].results) : Failed(futs["w"].results[i])

\* C28: what escapes wait() is one exception_list, and it escapes exactly
\* when a task of the generation the call swapped out has failed.  An error
\* of any other kind that get() raised would leave wait() wrapped into an
\* exception_list with that error as its one cause.
C28_WaitRaisesOneComposite ==
    /\ pc[0] = "wait_ret" =>
          /\ wexc # <<>> <=>
                \E i \in 1..Len(futs["w"].results) : Failed(futs["w"].results[i])
          /\ wexc # <<>> => (Len(wexc) = 1 /\ wexc[1].list)
    /\ \A t \in Threads :
          WaitCatch(<<Plain(t)>>) = <<ExceptionList(<<Plain(t)>>)>>

\* A wait() call of f is raising an exception_list with one cause: one of
\* the two tasks it joined failed with a plain error, the other ended
\* normally.
C28_Witness ==
    /\ pc[0] = "wait_ret"
    /\ ctx = "body"
    /\ Len(futs["w"].results) = 2
    /\ \E i, j \in 1..2 :
          /\ FailedPlain(futs["w"].results[i])
          /\ Finished(futs["w"].results[j])
          /\ texc[futs["w"].results[j]] = <<>>
    /\ wexc # <<>>
    /\ wexc[1].list
    /\ Len(wexc[1].causes) = 1

\* C29: the primary template of sender_traits goes by the embedded members.
\* For a move-constructible type without an explicit specialization of
\* sender_traits: if it embeds value_types, error_types and sends_done, it
\* is a sender and its traits expose these three members and no marker; if
\* it embeds one or two of them, its traits are the marker __unspecialized
\* alone and it is not a sender.
C29_EmbeddedMembersMakeSender ==
    ( /\ probe.kind = "is_sender"
      /\ Sender.move_constructible
      /\ Sender.specialization = "none" ) =>
        LET traits == sender_traits(Deduced(probe.sf), Sender) IN
        /\ Embedded(Sender) = 3 =>
              /\ probe.value = TRUE
              /\ traits = [unspecialized |-> FALSE, value_types |-> TRUE,
                           error_types |-> TRUE, sends_done |-> TRUE]
        /\ Embedded(Sender) \in {1, 2} =>
              /\ probe.value = FALSE
              /\ traits = [unspecialized |-> TRUE, value_types |-> FALSE,
                           error_types |-> FALSE, sends_done |-> FALSE]

\* is_sender has been instantiated, for an lvalue, with a move-constructible
\* type that embeds value_types and error_types but not sends_done, and is
\* false.
C29_Witness ==
    /\ probe.kind = "is_sender"
    /\ probe.sf = "lv"
    /\ Sender.move_constructible
    /\ Sender.specialization = "none"
    /\ Sender.value_types
    /\ Sender.error_types
    /\ ~Sender.sends_done
    /\ probe.value = FALSE

\* C30: task_region(policy, f) does not wait for the tasks.  Once f has
\* returned or raised, the call hands out its future and is left, whether or
\* not any task of the region ever finishes.
C30_PolicyCallReturns ==
    (mode = "async" /\ ctx = "ret") ~> (EntryLeft /\ result = "future")

\* task_region(policy, f) has returned its future, which is not ready, while
\* two registered tasks are still executing.
C30_Witness ==
    /\ mode = "async"
    /\ EntryLeft
    /\ result = "future"
    /\ futs["r"].state = "pending"
    /\ Len(futs["r"].results) = 2
    /\ \A i \in 1..2 : pc[futs["r"].results[i]] = "exec"

\* C31: every registered future is taken by one drain.  A future is in at
\* most one of the pending list and the swapped-out lists, and once only;
\* a future that has left the pending list never comes back to it, and one
\* that has left a swapped-out list is in no list again; no cause occurs
\* twice in what the entry point has collected or raises.
C31_OneDrainPerTask ==
    /\ [](\A t \in Tasks :
             Occurrences(HoldingLists[1] \o HoldingLists[2] \o HoldingLists[3], t) <= 1)
    /\ [](\A i, j \in 1..Len(errors) : errors[i] = errors[j] => i = j)
    /\ [][\A t \in Tasks :
             (Registered(t) /\ ~InList(tasks_, t)) =>
                 /\ ~InList(tasks_', t)
                 /\ \A k \in {"w", "r"} :
                       InList(futs'[k].results, t) => InList(futs[k].results, t)]_vars

\* task_region(f) has raised a composite of two causes: the first failed
\* task was joined by the wait() call of f, which raised its error alone,
\* and the second by the final wait().
C31_Witness ==
    /\ EntryLeft
    /\ result = "raised"
    /\ ~BodyRaisedItself
    /\ fexc # <<>>
    /\ Len(fexc[1].causes) = 1
    /\ Cardinality(FailedTasks) = 2
    /\ \A t \in FailedTasks : FailedPlain(t)
    /\ ThrownCount = 2

\* C32: the order of the causes is fixed by the program order.  When
\* task_region(f) is left and every failed task raised a plain error, the
\* causes of what it raises are the errors f raised by itself, followed by
\* the errors of the failed tasks in the order of their run calls, in
\* whatever order the tasks ended.
C32_CausesInRegistrationOrder ==
    (EntryLeft /\ mode = "sync" /\ \A t \in FailedTasks : FailedPlain(t)) =>
        CausesOf(thrown) =
            (IF BodyRaisedItself THEN Contribution(fexc[1]) ELSE <<>>)
                \o TaskErrorsUpTo(MaxTasks)

\* f spawned three tasks and raised an exception_list of two causes by
\* itself; the first and the third task failed: task_region(f) raised the
\* two causes of f, then the error of the first task, then that of the third.
C32_Witness ==
    /\ EntryLeft
    /\ mode = "sync"
    /\ BodyRaisedItself
    /\ fexc[1].list
    /\ FailedPlain(1)
    /\ Finished(2)
    /\ ~Failed(2)
    /\ FailedPlain(3)
    /\ CausesOf(thrown) = fexc[1].causes \o <<Plain(1), Plain(3)>>

\* C33: a wait() that finds the pending list empty neither waits nor raises.
\* The future of its when() is ready at once and holds no exception, and the
\* call returns normally; this is so for a wait() that follows a wait() with
\* no run in between, whatever the first one raised.
C33_EmptyWaitReturnsAtOnce ==
    (pc[0] \in {"get", "wait_ret"} /\ futs["w"].results = <<>>) =>
        /\ futs["w"].state = "ready"
        /\ futs["w"].exc = <<>>
        /\ pc[0] = "wait_ret" => wexc = <<>>

\* The wait() call of f raised the error of a failed task; the wait() of
\* task_region that follows it found the list empty and is returning
\* normally.
C33_Witness ==
    /\ pc[0] = "wait_ret"
    /\ ctx = "final"
    /\ fexc # <<>>
    /\ ~BodyRaisedItself
    /\ \E t \in Tasks : Failed(t)
    /\ futs["w"].results = <<>>
    /\ wexc = <<>>

\* C34: task_region(f) ends.  With an f that returns or raises, tasks whose
\* functions end and threads that are scheduled fairly, the entry point is
\* left, returning or raising, in every interleaving of the run calls of f
\* and of the tasks with the wait() calls and the destructor: no thread
\* waits for mtx_ for ever and no wait waits for a future for ever.
C34_RegionTerminates ==
    <>(EntryLeft /\ result \in {"returned", "raised"})

\* task_region(f) has been left after an explicit wait() of f, with three
\* tasks spawned, one of them by a task, and all of them finished.
C34_Witness ==
    /\ EntryLeft
    /\ result \in {"returned", "raised"}
    /\ waits = 1
    /\ nextId = MaxTasks + 1
    /\ \E t \in Tasks : parent[t] \in Tasks
    /\ \A t \in Tasks : Finished(t)

\* C35: is_sender_to implies a connect call that is accepted.  Whenever
\* is_sender_to<Sender, Receiver> is true, connect(s, r) compiles for at
\* least one of the nine forms of passing the operands, its result being an
\* operation state.
C35_SenderToImpliesAcceptedConnect ==
    (probe.kind = "is_sender_to" /\ probe.value = TRUE) =>
        \E sf \in Forms : \E rf \in Forms : Accepted(connect(Sender, sf, rf))

\* C36: the classification does not depend on the qualification.  For a
\* sender type S, is_sender of S const, S volatile, S& and S&& is is_sender
\* of S, and sender_traits of each of them exposes what sender_traits<S>
\* exposes.
C36_QualificationIrrelevant ==
    probe.kind = "qualified" =>
        /\ probe.value = is_sender("T", Sender)
        /\ probe.traits = sender_traits("T", Sender)

\* is_sender<S volatile> has been instantiated for a type that embeds the
\* three members and cannot be moved: it is false, and the traits of
\* S volatile expose the three members.
C36_Witness ==
    /\ probe.kind = "qualified"
    /\ probe.sf = "T volatile"
    /\ ~Sender.move_constructible
    /\ Sender.specialization = "none"
    /\ has_sender_types(Sender)
    /\ probe.value = FALSE
    /\ ExposesAll(probe.traits)

\* C37: finalize() calls MPI_Finalize only in a state where the environment
\* is enabled, has_called_init_ is set and MPI is initialized and not yet
\* finalized, and then this component is the one that initialized MPI;
\* has_called_init_ is set only when this component initialized MPI with a
\* thread level of at least the minimal one asked for; and over any sequence
\* of init and finalize calls the component finalizes MPI at most once.
C37_FinalizeOnlyOwnInitOnce ==
    /\ [][finalizes' # finalizes =>
              /\ enabled_
              /\ has_called_init_
              /\ mpi = "init"
              /\ mpi_by = "component"
              /\ mpi' = "finalized"]_vars
    /\ [](has_called_init_ =>
              /\ mpi_by = "component"
              /\ mpi # "uninit"
              /\ mpi_level >= init_minimal)
    /\ [](finalizes <= 1)

\* finalize() has finalized the MPI that this component initialized.
C37_Witness ==
    /\ finalizes = 1
    /\ mpi = "finalized"
    /\ mpi_by = "component"
    /\ enabled_
    /\ has_called_init_

\* C38: over the lifetime of one scoped_lock or scoped_try_lock object the
\* mutex is never unlocked more often than the object locked it, the object
\* locks it at most once, and when the object is destroyed, after an explicit
\* unlock() or without one, it has been unlocked exactly as often as locked.
C38_GuardKeepsMutexBalanced ==
    /\ guard.locks <= 1
    /\ guard.unlocks <= guard.locks
    /\ guard.phase = "gone" => guard.unlocks = guard.locks

\* C39: whenever a call of an hpx::init overload that takes a user entry
\* function f and a runtime mode launches the runtime, it launches it with
\* that f (directly or bound into init_helper) and with that mode, also when
\* argc == 0 or argv is null.
C39_InitLaunchesCallersFunctionAndMode ==
    launch.kind = "run_or_start" =>
        /\ launch.f.fn \in {"direct", "init_helper"}
        /\ launch.f.user = call.f
        /\ launch.mode = call.mode

----------------------------------------------------------------------------
TypeOK ==
    /\ mode \in {"sync", "async"}
    /\ mtx \in Threads \cup {-1}
    /\ nextId \in 1..(MaxTasks + 1)
    /\ result \in {"none", "returned", "raised", "future"}
    /\ enabled_ \in BOOLEAN
    /\ has_called_init_ \in BOOLEAN
    /\ provided_threading_flag_ \in ThreadLevels
    /\ mpi \in {"uninit", "init", "finalized"}
    /\ mpi_by \in {"none", "component", "other"}
    /\ mmtx \in {"free", "guard", "other"}
    /\ guard.phase \in {"none", "alive", "unlocked", "gone"}
    /\ launch.kind \in {"none", "run_or_start", "assert"}
    /\ call.overload \in InitOverloads \cup {"none"}
====
